---- MODULE Spec2Model ----
(***************************************************************************)
(* Tool-selection and iterative-orchestration engine of weekly_summeries:  *)
(* the applicability scoring of the tools (BaseTool.should_use and its     *)
(* overrides), the per-session state kept by ContextManager, and the       *)
(* IntelligentAgent.process_request loop with its sequential executor.     *)
(*                                                                         *)
(* Scores are Python floats in the source; here they are exact integers    *)
(* in units of 1/Scale.  Strings are TLA+ strings, matched by substring    *)
(* exactly as Python's `in` does.                                          *)
(***************************************************************************)
EXTENDS Integers, Sequences, FiniteSets, TLC

VARIABLES
    \* ---- one should_use call (tool instance, arguments, returned score)
    s_tool, s_enabled, s_configured, s_intent, s_context, s_call,
    \* ---- ContextManager
    max_history_size, session_contexts, n_updates, cm_call,
    \* ---- IntelligentAgent.process_request / _execute_tools
    pc, user_request, context, iteration, current_context, tool_actions,
    sorted_actions, action_idx, results, all_tool_results, all_tool_actions,
    returned, raised, calls, exec_log, passes,
    \* ---- ToolRegistry and one lookup on it
    registry, r_call,
    \* ---- one _get_tool_actions_from_llm call (arguments, reply, returned plan)
    plan_call,
    \* ---- SnowflakeConnectionManager, the connections it made, its callers
    manager, server, threads, actor,
    \* ---- process_request flows that share one ContextManager
    flows

svars == <<s_tool, s_enabled, s_configured, s_intent, s_context, s_call>>
cvars == <<max_history_size, session_contexts, n_updates, cm_call>>
avars == <<pc, user_request, context, iteration, current_context, tool_actions,
           sorted_actions, action_idx, results, all_tool_results,
           all_tool_actions, returned, raised, calls, exec_log, passes>>
rvars == <<registry, r_call>>
pvars == <<plan_call>>
nvars == <<manager, server, threads, actor>>
fvars == <<flows>>
xvars == <<nvars, fvars>>
vars == <<svars, cvars, avars, rvars, pvars, xvars>>

-----------------------------------------------------------------------------
(* Python string operations *)

LowerMap ==
    [c \in {"A", "B", "C", "D", "E", "F", "G", "H", "I", "J", "K", "L", "M",
            "N", "O", "P", "Q", "R", "S", "T", "U", "V", "W", "X", "Y", "Z"} |->
        CASE c = "A" -> "a" [] c = "B" -> "b" [] c = "C" -> "c" [] c = "D" -> "d"
          [] c = "E" -> "e" [] c = "F" -> "f" [] c = "G" -> "g" [] c = "H" -> "h"
          [] c = "I" -> "i" [] c = "J" -> "j" [] c = "K" -> "k" [] c = "L" -> "l"
          [] c = "M" -> "m" [] c = "N" -> "n" [] c = "O" -> "o" [] c = "P" -> "p"
          [] c = "Q" -> "q" [] c = "R" -> "r" [] c = "S" -> "s" [] c = "T" -> "t"
          [] c = "U" -> "u" [] c = "V" -> "v" [] c = "W" -> "w" [] c = "X" -> "x"
          [] c = "Y" -> "y" [] c = "Z" -> "z"]

RECURSIVE LowerFrom(_, _)
LowerFrom(s, i) ==
    IF i > Len(s) THEN ""
    ELSE LET c == SubSeq(s, i, i)
         IN  (IF c \in DOMAIN LowerMap THEN LowerMap[c] ELSE c) \o LowerFrom(s, i + 1)

\* str.lower()
Lower(s) == LowerFrom(s, 1)

\* `pat in s` on strings: pat occurs as a contiguous substring of s
Contains(pat, s) ==
    \E i \in 1..(Len(s) - Len(pat) + 1) : SubSeq(s, i, i + Len(pat) - 1) = pat

IsSpace(s, i) == SubSeq(s, i, i) = " "

\* str.strip(): drop leading and trailing whitespace
Strip(s) ==
    LET nonblank == {i \in 1..Len(s) : ~IsSpace(s, i)}
    IN  IF nonblank = {} THEN ""
        ELSE LET lo == CHOOSE i \in nonblank : \A j \in nonblank : i <= j
                 hi == CHOOSE i \in nonblank : \A j \in nonblank : j <= i
             IN  SubSeq(s, lo, hi)

\* len(s.split()): the number of maximal runs of non-whitespace characters
SplitLen(s) ==
    Cardinality({i \in 1..Len(s) : ~IsSpace(s, i) /\ (i = 1 \/ IsSpace(s, i - 1))})

\* sum(1 for x in xs if x in text) over a list xs (list positions are counted)
CountIn(xs, text) == Cardinality({i \in 1..Len(xs) : Contains(xs[i], text)})

\* sum(1 for x in xs if x.lower() in text)
CountLowerIn(xs, text) == Cardinality({i \in 1..Len(xs) : Contains(Lower(xs[i]), text)})

RECURSIVE UpperFrom(_, _)
UpperFrom(s, i) ==
    IF i > Len(s) THEN ""
    ELSE LET c == SubSeq(s, i, i)
             up == {u \in DOMAIN LowerMap : LowerMap[u] = c}
         IN  (IF up # {} THEN CHOOSE u \in up : TRUE ELSE c) \o UpperFrom(s, i + 1)

\* str.upper()
Upper(s) == UpperFrom(s, 1)

\* s.startswith(prefix)
StartsWith(s, prefix) == Len(s) >= Len(prefix) /\ SubSeq(s, 1, Len(prefix)) = prefix

DigitValue ==
    [c \in {"0", "1", "2", "3", "4", "5", "6", "7", "8", "9"} |->
        CASE c = "0" -> 0 [] c = "1" -> 1 [] c = "2" -> 2 [] c = "3" -> 3
          [] c = "4" -> 4 [] c = "5" -> 5 [] c = "6" -> 6 [] c = "7" -> 7
          [] c = "8" -> 8 [] c = "9" -> 9]

IsDigit(s, i) == i >= 1 /\ i <= Len(s) /\ SubSeq(s, i, i) \in DOMAIN DigitValue

\* the regex class \w: letters, digits and the underscore
IsWordChar(s, i) ==
    /\ i >= 1
    /\ i <= Len(s)
    /\ LET c == SubSeq(s, i, i)
       IN  \/ c \in DOMAIN LowerMap
           \/ c \in {LowerMap[u] : u \in DOMAIN LowerMap}
           \/ c \in DOMAIN DigitValue
           \/ c = "_"

\* the regex anchor \b holds between positions i - 1 and i
WordBoundary(s, i) == IsWordChar(s, i - 1) # IsWordChar(s, i)

\* the decimal number written at s[i..j]
RECURSIVE Number(_, _, _)
Number(s, i, j) ==
    IF j < i THEN 0 ELSE 10 * Number(s, i, j - 1) + DigitValue[SubSeq(s, j, j)]

\* the positions where \b<word>\b matches, ignoring case
WordMatches(word, s) ==
    {i \in 1..(Len(s) - Len(word) + 1) :
        /\ Lower(SubSeq(s, i, i + Len(word) - 1)) = word
        /\ WordBoundary(s, i)
        /\ WordBoundary(s, i + Len(word))}

Min(a, b) == IF a <= b THEN a ELSE b
Max(a, b) == IF a >= b THEN a ELSE b

-----------------------------------------------------------------------------
(* Scores: a float f of the source is the integer f * Scale.  Scale is a     *)
(* common multiple of every denominator the scoring code can produce.        *)

Scale == 4 * 3 * 25 * 7 * 17 * 31
Tenth(n) == (n * Scale) \div 10

-----------------------------------------------------------------------------
(* A request context (a Python dict): `has` is the set of optional keys it  *)
(* holds, `truthy` the keys whose value is truthy.                           *)

BaseKeys == {"user_request", "timestamp", "session_id"}

\* `key in context`
InContext(key, ctx) == key \in BaseKeys \/ key \in ctx.has

\* truthiness of context.get(key)
ContextGet(key, ctx) == key \in BaseKeys \/ key \in ctx.truthy

-----------------------------------------------------------------------------
(* Capability metadata of the seven concrete tools *)

SnowflakeCapabilities ==
    [name |-> "snowflake_query",
     use_cases |-> <<"Query user activity data", "Retrieve historical analytics",
                     "Get aggregated metrics", "Extract data for recommendations",
                     "Analyze user behavior patterns",
                     "Generate reports from warehouse data",
                     "List available tables and schemas", "Show database structure",
                     "Describe table information">>,
     prerequisites |-> <<>>,
     confidence_keywords |-> <<"data", "query", "sql", "database", "analytics",
                               "metrics", "snowflake", "warehouse", "reports",
                               "activity", "users", "tables", "table", "schema",
                               "schemas", "columns", "available", "list", "show",
                               "describe", "information", "structure">>,
     required |-> {"query"}]

MCPDatabaseCapabilities ==
    [name |-> "database_query",
     use_cases |-> <<"user_activity", "historical_data", "preferences",
                     "weekly_summary", "user_metrics", "activity_logs",
                     "user_behavior">>,
     prerequisites |-> <<"database_connection">>,
     confidence_keywords |-> <<"user", "activity", "data", "history", "database",
                               "query", "metrics", "preferences", "summary",
                               "trends">>,
     required |-> {"user_id", "date"}]

SlackCapabilities ==
    [name |-> "slack_send_message",
     use_cases |-> <<"team_notifications", "status_updates", "alerts",
                     "summary_sharing", "team_communication", "automated_reporting">>,
     prerequisites |-> <<"slack_bot_token", "channel_access">>,
     confidence_keywords |-> <<"slack", "notify", "message", "send", "communicate",
                               "alert", "update team", "tell team", "inform">>,
     required |-> {"channel", "message"}]

NotionCapabilities ==
    [name |-> "notion_search",
     use_cases |-> <<"team_knowledge", "project_documentation", "meeting_notes",
                     "collaboration_data", "knowledge_base_search", "team_wikis">>,
     prerequisites |-> <<"notion_api_token", "workspace_access">>,
     confidence_keywords |-> <<"notion", "team docs", "project", "meeting notes",
                               "collaboration", "wiki", "knowledge base",
                               "team knowledge">>,
     required |-> {"query"}]

GoogleDriveCapabilities ==
    [name |-> "drive_search",
     use_cases |-> <<"documentation", "guidelines", "templates", "policies",
                     "procedures", "manuals", "examples", "references">>,
     prerequisites |-> <<"google_auth">>,
     confidence_keywords |-> <<"document", "guide", "guideline", "template", "policy",
                               "procedure", "manual", "example", "reference",
                               "documentation", "format", "standard", "specification">>,
     required |-> {"query"}]

SummaryCapabilities ==
    [name |-> "summary_generation",
     use_cases |-> <<"summary", "report", "digest", "overview", "recap",
                     "personalized_content", "insights_presentation">>,
     prerequisites |-> <<"processed_data">>,
     confidence_keywords |-> <<"summary", "report", "overview", "digest", "recap",
                               "generate", "create", "personalized", "weekly", "daily">>,
     required |-> {"processed_data"}]

DataAnalysisCapabilities ==
    [name |-> "data_analysis",
     use_cases |-> <<"data_processing", "insights", "trends", "patterns", "analysis",
                     "metrics", "statistics", "recommendations">>,
     prerequisites |-> <<"raw_data">>,
     confidence_keywords |-> <<"analyze", "process", "insights", "trends", "patterns",
                               "statistics", "metrics", "summary", "analysis">>,
     required |-> {"data"}]

\* a further BaseTool subclass handed to register_tool: it declares the
\* prerequisite "date" and keeps the inherited should_use
UserDataCapabilities ==
    [name |-> "user_data_tool",
     use_cases |-> <<"daily report">>,
     prerequisites |-> <<"date">>,
     confidence_keywords |-> <<"report", "daily", "user">>,
     required |-> {}]

ToolNames == {"snowflake_query", "database_query", "slack_send_message",
              "notion_search", "drive_search", "summary_generation", "data_analysis"}

\* tool.capabilities, by the tool's registered name
capabilities(t) ==
    CASE t = "snowflake_query" -> SnowflakeCapabilities
      [] t = "database_query" -> MCPDatabaseCapabilities
      [] t = "slack_send_message" -> SlackCapabilities
      [] t = "notion_search" -> NotionCapabilities
      [] t = "drive_search" -> GoogleDriveCapabilities
      [] t = "summary_generation" -> SummaryCapabilities
      [] t = "data_analysis" -> DataAnalysisCapabilities
      [] t = "user_data_tool" -> UserDataCapabilities

-----------------------------------------------------------------------------
(* should_use: the base algorithm and the per-tool overrides *)

\* the `if not self.enabled: return 0.0` guard of the base algorithm
DisabledGuard(enabled) == ~enabled

\* BaseTool.should_use
BaseShouldUse(cap, enabled, intent, ctx) ==
    IF DisabledGuard(enabled) THEN 0
    ELSE
        LET intent_lower == Lower(intent)
            use_case_matches == CountLowerIn(cap.use_cases, intent_lower)
            keyword_matches == CountLowerIn(cap.confidence_keywords, intent_lower)
            missing == Cardinality({i \in 1..Len(cap.prerequisites) :
                                        ~InContext(cap.prerequisites[i], ctx)})
            prereq_penalty == missing * Tenth(2)
            total_keywords == Len(cap.use_cases) + Len(cap.confidence_keywords)
            base_score == IF total_keywords = 0 THEN Tenth(1)
                          ELSE ((use_case_matches + keyword_matches) * Scale)
                                   \div total_keywords
            final_score == Max(0, base_score - prereq_penalty)
        IN  Min(Scale, final_score)

\* MCPDatabaseTool.should_use
MCPDatabaseShouldUse(enabled, intent, ctx) ==
    LET base_confidence == BaseShouldUse(MCPDatabaseCapabilities, enabled, intent, ctx)
        boost == IF ContextGet("user_id", ctx) /\ ContextGet("date", ctx)
                 THEN Tenth(3) ELSE 0
        data_keywords == <<"data", "activity", "history", "user", "database", "query">>
        keyword_matches == CountIn(data_keywords, Lower(intent))
        kw == IF keyword_matches > 0
              THEN (keyword_matches * Tenth(2)) \div Len(data_keywords) ELSE 0
    IN  Min(Scale, base_confidence + boost + kw)

\* GoogleDriveTool.should_use
GoogleDriveShouldUse(enabled, intent, ctx) ==
    LET base_confidence == BaseShouldUse(GoogleDriveCapabilities, enabled, intent, ctx)
        doc_keywords == <<"document", "guide", "guideline", "template", "policy",
                          "manual", "example", "format", "standard", "documentation">>
        intent_lower == Lower(intent)
        keyword_matches == CountIn(doc_keywords, intent_lower)
        kw == IF keyword_matches > 0
              THEN (keyword_matches * Tenth(3)) \div Len(doc_keywords) ELSE 0
        data_keywords == <<"user_id", "database", "activity", "metrics">>
        data_matches == CountIn(data_keywords, intent_lower)
        cut == IF data_matches > 0 THEN Tenth(2) ELSE 0
    IN  Max(0, Min(Scale, base_confidence + kw - cut))

\* SummaryTool.should_use returning the sum without the final min(1.0, ...)
SummaryShouldUseUnclamped(enabled, intent, ctx) ==
    LET base_confidence == BaseShouldUse(SummaryCapabilities, enabled, intent, ctx)
        boost == IF ContextGet("tool_result_data_analysis", ctx)
                    \/ InContext("processed_data", ctx)
                 THEN Tenth(4) ELSE 0
        summary_keywords == <<"summary", "report", "overview", "digest", "generate">>
        intent_lower == Lower(intent)
        keyword_matches == CountIn(summary_keywords, intent_lower)
        kw == IF keyword_matches > 0
              THEN (keyword_matches * Tenth(3)) \div Len(summary_keywords) ELSE 0
        period == IF \E term \in {"weekly", "daily", "monthly"} :
                        Contains(term, intent_lower)
                  THEN Tenth(2) ELSE 0
    IN  base_confidence + boost + kw + period

\* SummaryTool.should_use
SummaryShouldUse(enabled, intent, ctx) ==
    LET base_confidence == BaseShouldUse(SummaryCapabilities, enabled, intent, ctx)
        boost == IF ContextGet("tool_result_data_analysis", ctx)
                    \/ InContext("processed_data", ctx)
                 THEN Tenth(4) ELSE 0
        summary_keywords == <<"summary", "report", "overview", "digest", "generate">>
        intent_lower == Lower(intent)
        keyword_matches == CountIn(summary_keywords, intent_lower)
        kw == IF keyword_matches > 0
              THEN (keyword_matches * Tenth(3)) \div Len(summary_keywords) ELSE 0
        period == IF \E term \in {"weekly", "daily", "monthly"} :
                        Contains(term, intent_lower)
                  THEN Tenth(2) ELSE 0
    IN  Min(Scale, base_confidence + boost + kw + period)

\* DataAnalysisTool.should_use
DataAnalysisShouldUse(enabled, intent, ctx) ==
    LET base_confidence == BaseShouldUse(DataAnalysisCapabilities, enabled, intent, ctx)
        boost == IF ContextGet("tool_result_database_query", ctx)
                    \/ InContext("data", ctx)
                 THEN Tenth(4) ELSE 0
        analysis_keywords == <<"analyze", "process", "insights", "trends", "summary">>
        keyword_matches == CountIn(analysis_keywords, Lower(intent))
        kw == IF keyword_matches > 0
              THEN (keyword_matches * Tenth(2)) \div Len(analysis_keywords) ELSE 0
    IN  Min(Scale, base_confidence + boost + kw)

\* SlackTool.should_use (does not call the base algorithm)
SlackShouldUse(is_configured, intent) ==
    IF ~is_configured THEN 0
    ELSE
        LET intent_lower == Lower(intent)
            high_matches == CountIn(<<"slack", "notify", "send message", "alert team",
                                      "update team">>, intent_lower)
            medium_matches == CountIn(<<"message", "communicate", "tell", "inform",
                                        "share", "broadcast">>, intent_lower)
            comm_matches == CountIn(<<"team", "group", "channel", "everyone",
                                      "colleagues">>, intent_lower)
        IN  IF high_matches > 0 THEN Min(Tenth(9), Tenth(7) + high_matches * Tenth(1))
            ELSE IF medium_matches > 0 /\ comm_matches > 0
                 THEN Min(Tenth(7), Tenth(4) + medium_matches * Tenth(1)
                                       + comm_matches * Tenth(1))
            ELSE IF medium_matches > 0
                 THEN Min(Tenth(5), Tenth(2) + medium_matches * Tenth(1))
            ELSE Tenth(1)

\* NotionTool.should_use (does not call the base algorithm)
NotionShouldUse(is_configured, intent) ==
    IF ~is_configured THEN 0
    ELSE
        LET intent_lower == Lower(intent)
            high_matches == CountIn(<<"notion", "team docs", "project docs",
                                      "meeting notes", "wiki">>, intent_lower)
            medium_matches == CountIn(<<"team", "project", "collaboration",
                                        "knowledge", "docs">>, intent_lower)
        IN  IF high_matches > 0 THEN Min(Tenth(9), Tenth(7) + high_matches * Tenth(1))
            ELSE IF medium_matches > 0
                 THEN Min(Tenth(6), Tenth(3) + medium_matches * Tenth(1))
            ELSE Tenth(1)

\* tool.should_use(intent, context), dispatched on the tool's class
should_use(t, enabled, is_configured, intent, ctx) ==
    CASE t = "snowflake_query" -> BaseShouldUse(SnowflakeCapabilities, enabled, intent, ctx)
      [] t = "database_query" -> MCPDatabaseShouldUse(enabled, intent, ctx)
      [] t = "drive_search" -> GoogleDriveShouldUse(enabled, intent, ctx)
      [] t = "summary_generation" -> SummaryShouldUse(enabled, intent, ctx)
      [] t = "data_analysis" -> DataAnalysisShouldUse(enabled, intent, ctx)
      [] t = "slack_send_message" -> SlackShouldUse(is_configured, intent)
      [] t = "notion_search" -> NotionShouldUse(is_configured, intent)
      [] t = "user_data_tool" -> BaseShouldUse(UserDataCapabilities, enabled, intent, ctx)

\* the tools whose should_use is BaseTool.should_use itself
BaseScoredTools == {"snowflake_query"}

\* the tools that keep an is_configured flag next to enabled
ConfiguredTools == {"slack_send_message", "notion_search"}

-----------------------------------------------------------------------------
(* Values shared by the context manager and the agent *)

\* Python's None where a string or a payload is expected
None == "None"

\* ToolResultStatus
ToolResultStatus == {"success", "error", "partial", "skipped"}

\* ToolResult(tool_name, status, data, error).  data is None, an empty
\* payload (falsy but not None), a non-empty payload of plain JSON values, or
\* a non-empty payload holding timestamps (which json.dumps rejects unless it
\* is given a default handler); error is None or text.
ToolResult(tool_name, status, data, error) ==
    [tool_name |-> tool_name, status |-> status, data |-> data, error |-> error]

Timestamps == "timestamps"

DataKinds == {None, "empty", "full", Timestamps}

\* bool(result.data)
DataTruthy(data) == data \in {"full", Timestamps}

\* the tool payloads a context holds under its tool_result_<name> keys
NoPayloads == [k \in {} |-> None]

-----------------------------------------------------------------------------
(* Python list slicing and dict updates *)

\* xs[-n:] for n >= 0.  Python reads -0 as 0, so xs[-0:] is the whole list.
LastSlice(xs, n) ==
    IF n = 0 THEN xs
    ELSE SubSeq(xs, Max(Len(xs) - n, 0) + 1, Len(xs))

InSeq(x, xs) == \E i \in 1..Len(xs) : xs[i] = x

\* d[key] = d.get(key, 0) + 1 on a dict (a function with a finite domain)
DictIncrement(d, key) ==
    [k \in DOMAIN d \cup {key} |->
        IF k = key THEN (IF key \in DOMAIN d THEN d[key] ELSE 0) + 1 ELSE d[k]]

EmptyDict == [k \in {} |-> 0]

-----------------------------------------------------------------------------
(* ContextManager *)

\* default of the max_history_size constructor argument
DefaultMaxHistorySize == 50

\* recent_tools keeps the last 10 entries
RecentToolsKept == 10

\* tool names in Python's string order (sorted() compares strings)
NameOrder == <<"custom_a", "custom_b", "custom_c", "data_analysis", "database_query",
               "drive_search", "google_drive_tool", "notion_search",
               "slack_send_message", "snowflake_query", "summary_generation",
               "user_data_tool">>

NameRank(n) == CHOOSE i \in 1..Len(NameOrder) : NameOrder[i] = n

\* sorted(names): stable insertion of each element in turn
RECURSIVE InsertSorted(_, _)
InsertSorted(x, xs) ==
    IF xs = <<>> THEN <<x>>
    ELSE IF NameRank(x) < NameRank(Head(xs)) THEN <<x>> \o xs
    ELSE <<Head(xs)>> \o InsertSorted(x, Tail(xs))

RECURSIVE Sorted(_)
Sorted(xs) ==
    IF xs = <<>> THEN <<>>
    ELSE InsertSorted(xs[Len(xs)], Sorted(SubSeq(xs, 1, Len(xs) - 1)))

\* sep.join(parts)
RECURSIVE Join(_, _)
Join(sep, parts) ==
    IF parts = <<>> THEN ""
    ELSE IF Len(parts) = 1 THEN parts[1]
    ELSE parts[1] \o sep \o Join(sep, Tail(parts))

\* "preferences": {}
NoPreferences ==
    [requested |-> EmptyDict, has_combinations |-> FALSE,
     tool_combinations |-> EmptyDict]

\* the session record created on first use
NewSession(now) ==
    [history |-> <<>>, recent_tools |-> <<>>, preferences |-> NoPreferences,
     created_at |-> now]

\* one entry of session history
HistoryEntry(ctx, tool_results) ==
    [timestamp |-> ctx.timestamp,
     user_request |-> ctx.user_request,
     tool_results |-> [i \in 1..Len(tool_results) |->
                          [tool_name |-> tool_results[i].tool_name,
                           status |-> tool_results[i].status,
                           has_data |-> tool_results[i].data # None]]]

\* the membership test that guards the append to recent_tools
Seen(name, recent) == InSeq(name, recent)

\* for result in tool_results: if name not in recent_tools: append
RECURSIVE AppendNew(_, _)
AppendNew(recent, tool_results) ==
    IF tool_results = <<>> THEN recent
    ELSE LET name == Head(tool_results).tool_name
         IN  AppendNew(IF Seen(name, recent) THEN recent ELSE Append(recent, name),
                       Tail(tool_results))

\* session_context["recent_tools"][-10:]
KeepAllRecent(recent) == recent
KeepRecent(recent) == LastSlice(recent, RecentToolsKept)

\* the history truncation of update_context
TrimHistory(history, cap) ==
    IF Len(history) > cap THEN LastSlice(history, cap) ELSE history

\* ContextManager._extract_preferences
RECURSIVE CountRequested(_, _)
CountRequested(requested, data_types) ==
    IF data_types = <<>> THEN requested
    ELSE CountRequested(DictIncrement(requested, "requested_" \o Head(data_types)),
                        Tail(data_types))

SuccessfulTools(tool_results) ==
    LET idx == {i \in 1..Len(tool_results) : tool_results[i].status = "success"}
        RECURSIVE Pick(_)
        Pick(i) == IF i > Len(tool_results) THEN <<>>
                   ELSE (IF i \in idx THEN <<tool_results[i].tool_name>> ELSE <<>>)
                        \o Pick(i + 1)
    IN  Pick(1)

extract_preferences(preferences, ctx, tool_results) ==
    LET requested == CountRequested(preferences.requested, ctx.data_types)
        successful_tools == SuccessfulTools(tool_results)
    IN  IF Len(successful_tools) > 1
        THEN [requested |-> requested, has_combinations |-> TRUE,
              tool_combinations |->
                  DictIncrement(preferences.tool_combinations,
                                Join(" + ", Sorted(successful_tools)))]
        ELSE [preferences EXCEPT !.requested = requested]

\* ContextManager.update_context: the session store after the call
update_context(sessions, cap, ctx, tool_results, now) ==
    LET session_id == ctx.session_id
        session_context == IF session_id \in DOMAIN sessions THEN sessions[session_id]
                           ELSE NewSession(now)
        history == Append(session_context.history, HistoryEntry(ctx, tool_results))
        recent == KeepRecent(AppendNew(session_context.recent_tools, tool_results))
        updated == [history |-> TrimHistory(history, cap),
                    recent_tools |-> recent,
                    preferences |-> extract_preferences(session_context.preferences,
                                                        ctx, tool_results),
                    created_at |-> session_context.created_at]
    IN  [s \in DOMAIN sessions \cup {session_id} |->
            IF s = session_id THEN updated ELSE sessions[s]]

-----------------------------------------------------------------------------
(* ContextManager.build_context and its entity extraction *)

\* \b(\d{4}-\d{2}-\d{2})\b matches at position i
IsoDateAt(s, i) ==
    /\ i + 9 <= Len(s)
    /\ \A k \in {0, 1, 2, 3, 5, 6, 8, 9} : IsDigit(s, i + k)
    /\ SubSeq(s, i + 4, i + 4) = "-"
    /\ SubSeq(s, i + 7, i + 7) = "-"
    /\ WordBoundary(s, i)
    /\ WordBoundary(s, i + 10)

\* \b(\d{1,2}/\d{1,2}/\d{4})\b matches at position i with field widths a, b
SlashDateAt(s, i, a, b) ==
    /\ i + a + b + 5 <= Len(s)
    /\ \A k \in 0..(a - 1) : IsDigit(s, i + k)
    /\ SubSeq(s, i + a, i + a) = "/"
    /\ \A k \in 0..(b - 1) : IsDigit(s, i + a + 1 + k)
    /\ SubSeq(s, i + a + b + 1, i + a + b + 1) = "/"
    /\ \A k \in 0..3 : IsDigit(s, i + a + b + 2 + k)
    /\ WordBoundary(s, i)
    /\ WordBoundary(s, i + a + b + 6)

Leftmost(S) == CHOOSE i \in S : \A j \in S : i <= j

\* the permissive parser accepts a calendar date; month lengths are not
\* told apart (a day 1..31 is accepted in every month)
ValidMonthDay(m, d) == m >= 1 /\ m <= 12 /\ d >= 1 /\ d <= 31

\* ContextManager._parse_date applied to the first match of the first
\* pattern that matches: TRUE when it yields a date (entities["date"] is set)
ExtractsDate(s) ==
    LET iso == {i \in 1..Len(s) : IsoDateAt(s, i)}
        slash == {w \in (1..Len(s)) \X {1, 2} \X {1, 2} : SlashDateAt(s, w[1], w[2], w[3])}
        days == UNION {WordMatches(w, s) : w \in {"today", "yesterday", "tomorrow"}}
        weeks == UNION {WordMatches(w, s) : w \in {"last week", "this week", "next week"}}
    IN  IF iso # {}
        THEN LET i == Leftmost(iso)
             IN  ValidMonthDay(Number(s, i + 5, i + 6), Number(s, i + 8, i + 9))
        ELSE IF slash # {}
        THEN LET i == Leftmost({w[1] : w \in slash})
                 \* the regex takes two digits for a field when it can
                 w == CHOOSE w \in slash :
                        /\ w[1] = i
                        /\ \A v \in slash : v[1] = i =>
                              (v[2] < w[2] \/ (v[2] = w[2] /\ v[3] <= w[3]))
                 first == Number(s, i, i + w[2] - 1)
                 second == Number(s, i + w[2] + 1, i + w[2] + w[3])
             IN  ValidMonthDay(first, second) \/ ValidMonthDay(second, first)
        ELSE IF days # {} THEN TRUE
        ELSE IF weeks # {} THEN TRUE
        \* "last month", "this month", "next month" match the fifth pattern,
        \* which no branch of _parse_date resolves: no date is set
        ELSE FALSE

\* the topic groups of _extract_entities, in dict order
DataTypeKeywords ==
    <<[data_type |-> "activity",
       keywords |-> <<"activity", "activities", "actions", "behavior">>],
      [data_type |-> "preferences",
       keywords |-> <<"preferences", "settings", "configuration">>],
      [data_type |-> "history",
       keywords |-> <<"history", "historical", "past", "previous">>],
      [data_type |-> "summary",
       keywords |-> <<"summary", "report", "overview", "digest">>],
      [data_type |-> "analysis",
       keywords |-> <<"analysis", "insights", "trends", "patterns">>]>>

RECURSIVE DataTypesFrom(_, _)
DataTypesFrom(request_lower, i) ==
    IF i > Len(DataTypeKeywords) THEN <<>>
    ELSE (IF CountIn(DataTypeKeywords[i].keywords, request_lower) > 0
          THEN <<DataTypeKeywords[i].data_type>> ELSE <<>>)
         \o DataTypesFrom(request_lower, i + 1)

\* entities["data_types"] of _extract_entities
ExtractDataTypes(s) == DataTypesFrom(Lower(s), 1)

\* additional_context: the optional keys it sets, those with a truthy value,
\* the recent_tool_usage it carries and whether json.dumps accepts its values
NoAdditionalContext ==
    [has |-> {}, truthy |-> {}, recent_tool_usage |-> <<>>, json_ok |-> TRUE]

\* `session_id or "default"`: None and the empty string are falsy
SessionLabel(session_id) == IF session_id \in {None, ""} THEN "default" ELSE session_id

\* the guard of the session copy: `if session_id and session_id in
\* self.session_contexts`, on the argument as given
LabelHasSession(sessions, session_id) == SessionLabel(session_id) \in DOMAIN sessions
ArgumentHasSession(sessions, session_id) ==
    session_id \notin {None, ""} /\ session_id \in DOMAIN sessions

\* ContextManager.build_context(user_request, user_id, session_id,
\* additional_context) on the session store `sessions`.  The user-identifier
\* patterns, whose match is stored under extracted_user_id and read by no
\* other code, are left out.
build_context(sessions, request, user_id_given, session_id, additional, now) ==
    LET dated == ExtractsDate(request)
        data_types == ExtractDataTypes(request)
        extracted == (IF user_id_given THEN {"user_id"} ELSE {})
                     \cup (IF dated THEN {"date", "original_date_text"} ELSE {})
                     \cup (IF data_types # <<>> THEN {"data_types"} ELSE {})
        copied == ArgumentHasSession(sessions, session_id)
        session_context == IF copied THEN sessions[session_id] ELSE NewSession(now)
        session_keys == IF copied
                        THEN {"conversation_history", "recent_tool_usage",
                              "user_preferences"}
                        ELSE {}
        session_truthy ==
            (IF session_context.history # <<>> THEN {"conversation_history"} ELSE {})
            \cup (IF session_context.recent_tools # <<>> THEN {"recent_tool_usage"}
                  ELSE {})
            \cup (IF session_context.preferences # NoPreferences
                  THEN {"user_preferences"} ELSE {})
        set_before == extracted \cup session_keys
    IN  [user_request |-> request,
         timestamp |-> now,
         session_id |-> SessionLabel(session_id),
         has |-> set_before \cup additional.has,
         truthy |-> (((extracted \cup session_truthy) \ additional.has)
                     \cup additional.truthy),
         data_types |-> data_types,
         recent_tool_usage |-> IF "recent_tool_usage" \in additional.has
                               THEN additional.recent_tool_usage
                               ELSE session_context.recent_tools,
         json_ok |-> additional.json_ok,
         previous_results |-> <<>>,
         payloads |-> NoPayloads,
         conversation_history |-> session_context.history,
         user_preferences |-> session_context.preferences]

-----------------------------------------------------------------------------
(* The tool registry after initialize(): every discovered class is          *)
(* instantiated without a config, so each tool is enabled, Slack and Notion  *)
(* hold no token, and the two tools with an asynchronous initialize (called  *)
(* without await) are never marked initialized.                              *)

\* registration order (the order of directory discovery)
RegistrationOrder ==
    <<"database_query", "snowflake_query", "drive_search", "notion_search",
      "data_analysis", "summary_generation", "slack_send_message">>

ToolEnabled(t) == TRUE
ToolConfigured(t) == FALSE
ToolInitialized(t) == FALSE

\* a tool instance held by the registry: its capabilities.name, its enabled
\* and is_configured flags, and whether its own cleanup() raises
ToolInstance(name, enabled, is_configured, cleanup_raises) ==
    [name |-> name, enabled |-> enabled, is_configured |-> is_configured,
     cleanup_raises |-> cleanup_raises]

\* the instances held after initialize(), in dict order
DiscoveredTools ==
    [i \in 1..Len(RegistrationOrder) |->
        ToolInstance(RegistrationOrder[i], ToolEnabled(RegistrationOrder[i]),
                     ToolConfigured(RegistrationOrder[i]), FALSE)]

\* ToolRegistry.get_tool(name) finds a tool
Registered(name) == InSeq(name, RegistrationOrder)

\* list.sort(key = confidence, reverse = True): stable, descending
RECURSIVE InsertByConfidence(_, _)
InsertByConfidence(pair, pairs) ==
    IF pairs = <<>> THEN <<pair>>
    ELSE IF pair.confidence > Head(pairs).confidence THEN <<pair>> \o pairs
    ELSE <<Head(pairs)>> \o InsertByConfidence(pair, Tail(pairs))

RECURSIVE SortByConfidence(_)
SortByConfidence(pairs) ==
    IF pairs = <<>> THEN <<>>
    ELSE InsertByConfidence(pairs[Len(pairs)],
                            SortByConfidence(SubSeq(pairs, 1, Len(pairs) - 1)))

\* ToolSelector.min_confidence, as a score
min_confidence == Tenth(1)

\* ToolRegistry.get_enabled_tools, in dict order
get_all_tools(tools) == tools
get_enabled_tools(tools) == SelectSeq(tools, LAMBDA tool : tool.enabled)

\* ToolRegistry.get_tools_for_intent on a registry holding `tools`
get_tools_for_intent(tools, intent, ctx, threshold) ==
    LET enabled_tools == get_enabled_tools(tools)
        scored == [i \in 1..Len(enabled_tools) |->
                      [tool |-> enabled_tools[i].name,
                       confidence |-> should_use(enabled_tools[i].name,
                                                 enabled_tools[i].enabled,
                                                 enabled_tools[i].is_configured,
                                                 intent, ctx)]]
        Keep(pair) == pair.confidence >= threshold
    IN  SortByConfidence(SelectSeq(scored, Keep))

\* ToolSelector._check_prerequisites
PrerequisitesIgnored(t, ctx) == TRUE
check_prerequisites(t, ctx) ==
    \A i \in 1..Len(capabilities(t).prerequisites) :
        InContext(capabilities(t).prerequisites[i], ctx)

\* ToolSelector._adjust_confidence
adjust_confidence(t, base_confidence, ctx) ==
    LET data_boost == IF t \in {"database_query", "user_data_tool"}
                         /\ InContext("user_id", ctx) /\ InContext("date", ctx)
                      THEN Tenth(2) ELSE 0
        doc_keywords == <<"guide", "documentation", "template", "policy", "format">>
        doc_boost == IF t \in {"drive_search", "google_drive_tool"}
                        /\ CountIn(doc_keywords, Lower(ctx.user_request)) > 0
                     THEN (15 * Scale) \div 100 ELSE 0
        recent_cut == IF InSeq(t, ctx.recent_tool_usage) THEN Tenth(1) ELSE 0
    IN  Max(0, Min(Scale, base_confidence + data_boost + doc_boost - recent_cut))

\* ToolSelector._apply_contextual_filtering (the order of the input is kept)
apply_contextual_filtering(pairs, ctx) ==
    LET adjusted == [i \in 1..Len(pairs) |->
                        [tool |-> pairs[i].tool,
                         confidence |-> adjust_confidence(pairs[i].tool,
                                                          pairs[i].confidence, ctx)]]
        Keep(pair) == check_prerequisites(pair.tool, ctx)
                      /\ pair.confidence >= min_confidence
    IN  SelectSeq(adjusted, Keep)

\* ToolSelector.select_tools
select_tools(tools, request, ctx) ==
    apply_contextual_filtering(get_tools_for_intent(tools, request, ctx, min_confidence),
                               ctx)

-----------------------------------------------------------------------------
(* Tool actions and the tools' validate_parameters / execute                *)

\* the parameters of a ToolAction: whether the value is a mapping at all,
\* the keys with a well-formed value and the keys with a malformed one
Parameters(ok, bad) == [mapping |-> TRUE, ok |-> ok, bad |-> bad]
NotAMapping == [mapping |-> FALSE, ok |-> {}, bad |-> {}]

\* ToolAction(tool_name, parameters, priority); action_id is generated
ToolAction(tool_name, parameters, priority, action_id) ==
    [tool_name |-> tool_name, parameters |-> parameters, priority |-> priority,
     action_id |-> action_id]

Passed == [raised |-> FALSE, text |-> ""]
Raises(text) == [raised |-> TRUE, text |-> text]

\* tool.validate_parameters(**action.parameters): the exception it raises, if any
validate_parameters(t, p) ==
    IF ~p.mapping THEN Raises("argument after ** must be a mapping")
    ELSE CASE t = "database_query" ->
                IF "user_id" \in p.bad THEN Raises("Invalid user_id format")
                ELSE IF "date" \in p.bad THEN Raises("Invalid date format")
                ELSE IF "query_type" \in p.bad THEN Raises("Invalid query_type")
                ELSE Passed
           [] t = "drive_search" ->
                IF "query" \in p.ok THEN Passed
                ELSE IF "query" \in p.bad
                     THEN Raises("object has no attribute 'strip'")
                     ELSE Raises("Query parameter is required and cannot be empty")
           [] t = "data_analysis" ->
                IF "data" \notin p.ok \cup p.bad THEN Raises("Data parameter is required")
                ELSE IF "data" \in p.bad THEN Raises("Data must be a dictionary")
                ELSE IF "analysis_type" \in p.bad THEN Raises("Invalid analysis_type")
                ELSE IF "time_period" \in p.bad THEN Raises("Invalid time_period")
                ELSE Passed
           [] t = "summary_generation" ->
                IF "processed_data" \notin p.ok \cup p.bad
                THEN Raises("Processed data is required for summary generation")
                ELSE IF "processed_data" \in p.bad
                     THEN Raises("Processed data must be a dictionary")
                ELSE IF "summary_type" \in p.bad THEN Raises("Invalid summary_type")
                ELSE IF "format" \in p.bad THEN Raises("Invalid format")
                ELSE Passed
           [] OTHER -> Passed   \* BaseTool.validate_parameters returns kwargs

\* what the world does to a tool that reaches its external work: it answers
\* with plain data, answers with data holding timestamps, or fails
ToolEnvs == {"plain", "timestamps", "fails"}

\* the ways a call to execute ends: it returns a result (caught tells that the
\* tool's own except branch built it) or the call itself raises
Returns(result) == [raised |-> FALSE, caught |-> FALSE, text |-> "", result |-> result]
ReturnsCaught(result) == [raised |-> FALSE, caught |-> TRUE, text |-> "", result |-> result]
Throws(text) ==
    [raised |-> TRUE, caught |-> FALSE, text |-> text,
     result |-> ToolResult("", "error", None, None)]

\* SnowflakeTool.execute(query, parameters, limit, **kwargs)
SnowflakeExecute(p, env) ==
    IF "query" \notin p.ok \cup p.bad
    THEN Throws("execute() missing 1 required positional argument: 'query'")
    ELSE IF env = "fails" \/ "query" \in p.bad
    \* the except branch: the text goes into data, the error field stays None
    THEN ReturnsCaught(ToolResult("snowflake_query", "error", "full", None))
    ELSE IF env = "timestamps"
    THEN Returns(ToolResult("snowflake_query", "success", Timestamps, None))
    ELSE Returns(ToolResult("snowflake_query", "success", "full", None))

\* MCPDatabaseTool.execute and GoogleDriveTool.execute before initialization
UninitializedExecute(t) == Returns(ToolResult(t, "error", None, "Tool not initialized"))

\* SlackTool.execute and NotionTool.execute without a token
UnconfiguredExecute(t) ==
    Returns(ToolResult(t, "error", None,
                       IF t = "slack_send_message"
                       THEN "Slack tool not configured. Bot token required."
                       ELSE "Notion tool not configured. API token and workspace ID required."))

\* DataAnalysisTool.execute and SummaryTool.execute on validated parameters
ProcessingExecute(t, env) ==
    IF env = "fails"
    THEN ReturnsCaught(ToolResult(t, "error", None, "unsupported operand type(s)"))
    ELSE Returns(ToolResult(t, "success", "full", None))

\* await tool.execute(**validated_params)
execute(t, p, env) ==
    CASE t = "snowflake_query" -> SnowflakeExecute(p, env)
      [] t \in {"database_query", "drive_search"} -> UninitializedExecute(t)
      [] t \in {"slack_send_message", "notion_search"} -> UnconfiguredExecute(t)
      [] t \in {"data_analysis", "summary_generation"} -> ProcessingExecute(t, env)

-----------------------------------------------------------------------------
(* IntelligentAgent *)

NoContext ==
    [user_request |-> "", timestamp |-> 0, session_id |-> "default", has |-> {},
     truthy |-> {}, data_types |-> <<>>, recent_tool_usage |-> <<>>,
     json_ok |-> TRUE, previous_results |-> <<>>, payloads |-> NoPayloads,
     conversation_history |-> <<>>, user_preferences |-> NoPreferences]

NothingReturned ==
    [keys |-> {}, status |-> "none", response |-> "", tool_results |-> <<>>,
     tool_actions |-> <<>>, error |-> None, context |-> NoContext]

NothingRaised == [site |-> "none", text |-> ""]

\* no request is being processed (the other specifications leave the agent alone)
AgentIdle ==
    /\ pc = "idle"
    /\ user_request = ""
    /\ context = NoContext
    /\ iteration = 0
    /\ current_context = NoContext
    /\ tool_actions = <<>>
    /\ sorted_actions = <<>>
    /\ action_idx = 0
    /\ results = <<>>
    /\ all_tool_results = <<>>
    /\ all_tool_actions = <<>>
    /\ returned = NothingReturned
    /\ raised = NothingRaised
    /\ calls = [select_tools |-> 0, planner |-> 0, tools |-> 0]
    /\ exec_log = <<>>
    /\ passes = <<>>

-----------------------------------------------------------------------------
(* ToolRegistry: _tools and _tool_classes are dicts, kept here as sequences  *)
(* in insertion order (of instances and of names), and the _initialized flag *)

\* ToolRegistry.__init__
\* (skipped_by_initialize is not a field of the class: it records the names
\* of the held instances on which initialize did not call tool.initialize())
EmptyRegistry ==
    [tools |-> <<>>, tool_classes |-> <<>>, initialized |-> FALSE,
     skipped_by_initialize |-> {}]

\* d[key] = value on a dict in insertion order, given its keys in that
\* order: a known key keeps its place
DictSet(keys, entries, key, value) ==
    IF InSeq(key, keys)
    THEN [i \in 1..Len(entries) |-> IF keys[i] = key THEN value ELSE entries[i]]
    ELSE Append(entries, value)

\* ToolRegistry.register_tool
register_tool(reg, tool) ==
    LET names == [i \in 1..Len(reg.tools) |-> reg.tools[i].name]
    IN  [reg EXCEPT !.tools = DictSet(names, reg.tools, tool.name, tool),
                    !.tool_classes = DictSet(reg.tool_classes, reg.tool_classes,
                                             tool.name, tool.name),
                    !.skipped_by_initialize = @ \ {tool.name}]

\* ToolRegistry._discover_tools: one new instance of each tool class
RECURSIVE discover_tools(_, _)
discover_tools(reg, found) ==
    IF found = <<>> THEN reg
    ELSE discover_tools(register_tool(reg, Head(found)), Tail(found))

\* config.get("tools.<name>", {}).get("enabled", True), for a config given
\* as the set of names whose entry has enabled = false
ConfigEnabled(config, tool_name) == tool_name \notin config

\* ToolRegistry.initialize(config): tool.initialize() is called without await
\* on the instances the config leaves enabled, and changes none of them;
\* the instances it skips keep the enabled flag their constructor set
initialize(reg, config) ==
    IF reg.initialized THEN reg
    ELSE LET found == discover_tools(reg, DiscoveredTools)
             skipped == {i \in 1..Len(found.tools) :
                            ~ConfigEnabled(config, found.tools[i].name)}
         IN  [found EXCEPT
                 !.initialized = TRUE,
                 !.skipped_by_initialize = {found.tools[i].name : i \in skipped}]

\* whether an exception of tool.cleanup() leaves ToolRegistry.cleanup: the
\* call sits in try/except Exception, which logs and goes on
CleanupUnguarded(tool) == tool.cleanup_raises
CleanupPropagates(tool) == FALSE

\* ToolRegistry.cleanup: the registry afterwards and whether the call raised
cleanup(reg) ==
    IF \E i \in 1..Len(reg.tools) : CleanupPropagates(reg.tools[i])
    THEN [registry |-> reg, raised |-> TRUE]
    ELSE [registry |-> EmptyRegistry, raised |-> FALSE]

-----------------------------------------------------------------------------
(* SnowflakeConnectionManager: one shared instance, called by several        *)
(* threads.  Connections are numbered in the order sf.connect() makes them;  *)
(* time is counted in hours.  A step of a thread is one statement that reads *)
(* or writes self.connection or self.connection_time.                        *)

\* self.connection = None
NoConnection == 0

\* self.connection_time = None
NoTime == -1

\* timedelta(hours = 1)
connection_timeout == 1

\* the calling threads
Threads == {"t1", "t2"}

\* SnowflakeConnectionManager.__init__; _lock is free
NewManager ==
    [connection |-> NoConnection, connection_time |-> NoTime, lock |-> "none"]

\* the connections closed so far, those the server dropped, the number made
\* and the time
NewServer == [closed |-> {}, dead |-> {}, n_created |-> 0, now |-> 0]

\* a thread outside every call.  Besides the position (pc), the statement
\* _close_connection returns to, the local variable `connection` of
\* execute_query and the reconnect flag, a thread records what its current
\* get_connection call found (judged, old), made (created) and returned
\* (ret, did_raise), with the stored fields as they were at the return.
IdleThread ==
    [op |-> "none", pc |-> "idle", after_close |-> "idle", reconnecting |-> FALSE,
     local |-> NoConnection, judged |-> "none", old |-> NoConnection,
     created |-> NoConnection, ret |-> NoConnection, did_raise |-> FALSE,
     stored_after |-> NoConnection, time_after |-> NoTime]

\* datetime.now() - self.connection_time > self.connection_timeout
Expired(now, connection_time) == now - connection_time > connection_timeout

\* the liveness probe, cursor.execute("SELECT CURRENT_TIMESTAMP()"), raises:
\* on None (AttributeError), on a closed connection, on a dropped one
ProbeFails(connection, srv) ==
    \/ connection = NoConnection
    \/ connection \in srv.closed
    \/ connection \in srv.dead

\* leaving `with self._lock:`
Release(mgr) == [mgr EXCEPT !.lock = "none"]

\* get_connection returns or raises: the lock is released and the call's
\* outcome is recorded
Returned(thread, mgr, value, did_raise) ==
    [thread EXCEPT !.pc = "got", !.ret = value, !.did_raise = did_raise,
                   !.stored_after = mgr.connection,
                   !.time_after = mgr.connection_time]

ConnIdle ==
    /\ manager = NewManager
    /\ server = NewServer
    /\ threads = [t \in Threads |-> IdleThread]
    /\ actor = "none"

-----------------------------------------------------------------------------
(* The states in which a component is left alone *)

NotCalled == [called |-> FALSE, score |-> 0]

ScoreIdle ==
    /\ s_tool = "none"
    /\ s_enabled = TRUE
    /\ s_configured = FALSE
    /\ s_intent = ""
    /\ s_context = [has |-> {}, truthy |-> {}]
    /\ s_call = NotCalled

\* no ContextManager call observed yet
NoCMCall ==
    [op |-> "none", session_id |-> None, batch |-> <<>>, context |-> NoContext]

\* a ContextManager call as observed: the operation, the session id it was
\* given, the result batch (update_context) and the context returned
\* (build_context)
CMCall(op, session_id, batch, ctx) ==
    [op |-> op, session_id |-> session_id, batch |-> batch, context |-> ctx]

CMIdle ==
    /\ max_history_size = DefaultMaxHistorySize
    /\ session_contexts = [s \in {} |-> NewSession(0)]
    /\ n_updates = 0
    /\ cm_call = NoCMCall

\* no registry call made yet
NoRegistryCall ==
    [op |-> "none", before |-> EmptyRegistry, request |-> "", context |-> NoContext,
     result |-> <<>>, raised |-> FALSE]

\* the registry as the agent uses it: initialized once, then only read
RegistryIdle ==
    /\ registry = initialize(EmptyRegistry, {})
    /\ r_call = NoRegistryCall

\* no planning call made
NoPlanCall ==
    [called |-> FALSE, request |-> "", context |-> NoContext, recommended |-> <<>>,
     reply |-> [kind |-> "none", actions |-> <<>>], actions |-> <<>>]

PlanIdle == plan_call = NoPlanCall

\* no process_request flow in progress; no update_context call logged
NoFlows == [procs |-> <<>>, log |-> <<>>, prior |-> 0]

FlowsIdle == flows = NoFlows

-----------------------------------------------------------------------------
(* IntelligentAgent: the pure parts of process_request *)

\* IntelligentAgent._is_conversational_request
is_conversational_request(request) ==
    LET conversational_patterns ==
            <<"hi", "hello", "hey", "what model are you", "who are you",
              "what are you", "how are you", "what can you do", "what do you do",
              "help", "thank you", "thanks", "bye", "goodbye", "what's your name",
              "introduce yourself", "tell me about yourself",
              "what are your capabilities", "how do you work">>
        data_keywords == <<"table", "data", "query", "search", "find", "show",
                           "get", "list", "database", "snowflake">>
        request_lower == Strip(Lower(request))
    IN  \/ CountIn(conversational_patterns, request_lower) > 0
        \/ SplitLen(request_lower) <= 3 /\ CountIn(data_keywords, request_lower) = 0

\* `if self._is_conversational_request(user_request)`: step 1 leaves
\* process_request at once
NoConversationalExit(request) == FALSE
ConversationalExit(request) == is_conversational_request(request)

\* the sites of process_request that lie inside its try block: all of it
\* after build_context
SynthesisOutsideTry(site) == site # "synthesis"
InsideTry(site) == TRUE

\* the iteration budget of process_request
max_iterations == 3

\* the loop test `while iteration < max_iterations`
LoopGuard(i) == i < max_iterations

\* the compact summary folded into the iteration-scoped context
PreviousResults(tool_results) ==
    [i \in 1..Len(tool_results) |->
        [tool |-> tool_results[i].tool_name, status |-> tool_results[i].status,
         has_data |-> DataTruthy(tool_results[i].data)]]

\* current_context = {**context, "previous_results": [...]}
CurrentContext(ctx, tool_results) ==
    [ctx EXCEPT !.has = @ \cup {"previous_results"},
                !.truthy = IF tool_results = <<>> THEN @ \ {"previous_results"}
                           ELSE @ \cup {"previous_results"},
                !.previous_results = PreviousResults(tool_results)]

\* IntelligentAgent._extract_basic_parameters
extract_basic_parameters(request, ctx) ==
    Parameters((IF InContext("user_id", ctx) THEN {"user_id"} ELSE {})
               \cup (IF InContext("date", ctx) THEN {"date"} ELSE {})
               \cup {"query"}, {})

\* the fallback plan without the [:3] limit
FallbackEveryTool(request, recommended, ctx, first_id) ==
    [i \in 1..Len(recommended) |->
        ToolAction(recommended[i].tool, extract_basic_parameters(request, ctx),
                   i, first_id + i - 1)]

\* the fallback plan: one action per recommended tool, at most three
FallbackActions(request, recommended, ctx, first_id) ==
    [i \in 1..Min(3, Len(recommended)) |->
        ToolAction(recommended[i].tool, extract_basic_parameters(request, ctx),
                   i, first_id + i - 1)]

\* one element of the JSON array of the reply: the keys it holds (none when
\* the element is not an object) and their values
ActionObject(keys, tool_name, parameters, priority) ==
    [keys |-> keys, tool_name |-> tool_name, parameters |-> parameters,
     priority |-> priority]

\* the reply of the planning backend: a bracketed array was found and is
\* valid JSON ("actions", with its elements), or the reply holds no
\* bracketed array ("no_array"), or the bracketed text is not valid JSON
\* ("bad_json"), or the backend call fails ("backend_error")
PlanReply(kind, actions) == [kind |-> kind, actions |-> actions]

\* action_data["tool_name"] and action_data["parameters"] raise KeyError
LacksKey(action_data) == ~({"tool_name", "parameters"} \subseteq action_data.keys)

\* IntelligentAgent._get_tool_actions_from_llm after the prompt is built
get_tool_actions_from_llm(request, recommended, ctx, reply, first_id) ==
    IF reply.kind = "actions"
       /\ \A i \in 1..Len(reply.actions) : ~LacksKey(reply.actions[i])
    THEN [i \in 1..Len(reply.actions) |->
             ToolAction(reply.actions[i].tool_name, reply.actions[i].parameters,
                        IF "priority" \in reply.actions[i].keys
                        THEN reply.actions[i].priority ELSE 1,
                        first_id + i - 1)]
    ELSE FallbackActions(request, recommended, ctx, first_id)

\* sorted(tool_actions, key = priority): stable, ascending
Unsorted(actions) == actions
RECURSIVE InsertByPriority(_, _)
InsertByPriority(action, actions) ==
    IF actions = <<>> THEN <<action>>
    ELSE IF action.priority < Head(actions).priority THEN <<action>> \o actions
    ELSE <<Head(actions)>> \o InsertByPriority(action, Tail(actions))

RECURSIVE SortedByPriority(_)
SortedByPriority(actions) ==
    IF actions = <<>> THEN <<>>
    ELSE InsertByPriority(actions[Len(actions)],
                          SortedByPriority(SubSeq(actions, 1, Len(actions) - 1)))

SortByPriority(actions) == SortedByPriority(actions)

\* the reply of the sufficiency backend: a text, no content, or a failed call
SufficiencyReply(kind, text) == [kind |-> kind, text |-> text]

SuccessfulResults(tool_results) ==
    SelectSeq(tool_results, LAMBDA r : r.status = "success")

\* `if not successful_results: return False`
NeverSkipsBackend(successful_results) == FALSE
SkipsBackend(successful_results) == successful_results = <<>>

\* the except branch of the sufficiency check:
\* `return len(successful_results) > 0`
InsufficientOnFailure(successful_results) == FALSE
SufficientOnFailure(successful_results) == Len(successful_results) > 0

\* IntelligentAgent._has_sufficient_information
has_sufficient_information(tool_results, reply) ==
    IF tool_results = <<>> THEN FALSE
    ELSE LET successful_results == SuccessfulResults(tool_results)
         IN  IF SkipsBackend(successful_results) THEN FALSE
             ELSE IF reply.kind = "text"
                  THEN StartsWith(Upper(Strip(reply.text)), "YES")
                  \* the call failed, or content was None and .strip() raised
                  ELSE SufficientOnFailure(successful_results)

\* `if not all_tool_results` after the loop
NoToolResults(tool_results) == tool_results = <<>>

\* json.dumps(results_summary) in _generate_response raises
SummaryUnserializable(tool_results) ==
    \E i \in 1..Len(tool_results) :
        tool_results[i].status = "success" /\ tool_results[i].data = Timestamps

\* serialize_tool_results: every result becomes a dict of its fields; a
\* payload is only rewritten when the encoder with the default handler
\* fails on it, which it does on none of the payloads modelled
serialize_tool_results(tool_results) ==
    [i \in 1..Len(tool_results) |->
        [tool_name |-> tool_results[i].tool_name, status |-> tool_results[i].status,
         data |-> tool_results[i].data, error |-> tool_results[i].error]]

\* the record process_request returns: its keys and their values
ConversationalReturn(status, response, ctx) ==
    [keys |-> {"response", "status", "tool_results", "tool_actions", "context",
               "timestamp"},
     status |-> status, response |-> response, tool_results |-> <<>>,
     tool_actions |-> <<>>, error |-> None, context |-> ctx]

SuccessReturn(response, tool_results, actions, ctx) ==
    [keys |-> {"response", "status", "tool_results", "tool_actions", "context",
               "timestamp"},
     status |-> "success", response |-> response,
     tool_results |-> serialize_tool_results(tool_results),
     tool_actions |-> actions, error |-> None, context |-> ctx]

\* the except branch of process_request
ErrorReturn(text, ctx) ==
    [keys |-> {"response", "status", "error", "context", "timestamp"},
     status |-> "error",
     response |-> "I encountered an error while processing your request: " \o text,
     tool_results |-> <<>>, tool_actions |-> <<>>, error |-> text, context |-> ctx]

\* the replies of _generate_conversational_response and _generate_response:
\* the backend's text, or the canned text of their except branches
Responses == {"backend text", "canned text"}

-----------------------------------------------------------------------------
(* Specification SpecScore: one should_use call on one tool instance *)

\* the intents handed to should_use
Intents ==
    {"hello",
     "show me tables available in the warehouse",
     "Get user activity data and history from the database",
     "send a Slack message to tell the team",
     "search Notion project docs",
     "find the policy document template",
     "generate a weekly summary report",
     "analyze trends and insights"}

\* the contexts handed to should_use
ScoreContexts ==
    {[has |-> {}, truthy |-> {}],
     [has |-> {"user_id", "date"}, truthy |-> {"user_id", "date"}],
     [has |-> {"user_id", "date", "database_connection"}, truthy |-> {"date"}],
     [has |-> {"raw_data", "data", "tool_result_database_query"},
      truthy |-> {"raw_data", "tool_result_database_query"}],
     [has |-> {"processed_data", "tool_result_data_analysis"},
      truthy |-> {"processed_data", "tool_result_data_analysis"}],
     [has |-> {"google_auth", "slack_bot_token", "channel_access",
               "notion_api_token", "workspace_access"},
      truthy |-> {"google_auth"}]}

InitScore ==
    /\ s_tool \in ToolNames
    /\ s_enabled \in BOOLEAN
    /\ s_configured \in (IF s_tool \in ConfiguredTools THEN BOOLEAN ELSE {FALSE})
    /\ s_intent \in Intents
    /\ s_context \in ScoreContexts
    /\ s_call = NotCalled
    /\ AgentIdle
    /\ CMIdle
    /\ RegistryIdle
    /\ PlanIdle
    /\ ConnIdle
    /\ FlowsIdle

ShouldUseCall ==
    /\ ~s_call.called
    /\ s_call' = [called |-> TRUE,
                  score |-> should_use(s_tool, s_enabled, s_configured,
                                       s_intent, s_context)]
    /\ UNCHANGED <<s_tool, s_enabled, s_configured, s_intent, s_context, avars, cvars, rvars, pvars, xvars>>

NextScore == ShouldUseCall

SpecScore == InitScore /\ [][NextScore]_vars

\* C10: a tool whose enabled flag is false returns exactly 0.0 from
\* should_use for every intent and every context, whichever tool it is.
C10_DisabledScoresZero ==
    (s_call.called /\ ~s_enabled) => s_call.score = 0

\* C11: whatever the tool, the intent and the context (matched use cases and
\* keywords, missing prerequisites, per-tool boosts and penalties), the score
\* returned by should_use lies between 0 and 1.
C11_ScoreInUnitInterval ==
    s_call.called => (0 <= s_call.score /\ s_call.score <= Scale)

\* a summary request whose base score, processed-data boost, keyword boost
\* and period boost add up to more than 1 and come back as exactly 1
C11_Witness ==
    /\ s_call.called
    /\ s_tool = "summary_generation"
    /\ s_enabled
    /\ s_intent = "generate a weekly summary report"
    /\ "processed_data" \in s_context.has
    /\ s_call.score = Scale

-----------------------------------------------------------------------------
(* Specification SpecCM: any sequence of ContextManager calls *)

MaxUpdates == 2
MaxHistoryCap == 2

SessionIds == {"default", "s1"}

\* the request contexts handed to update_context
CMContexts ==
    {[user_request |-> "hello", timestamp |-> 0, session_id |-> "default",
      has |-> {}, truthy |-> {}, data_types |-> <<>>],
     [user_request |-> "weekly summary", timestamp |-> 0, session_id |-> "s1",
      has |-> {"data_types"}, truthy |-> {"data_types"},
      data_types |-> <<"summary">>]}

AllSucceed(names) == [i \in 1..Len(names) |-> ToolResult(names[i], "success", "full", None)]

\* the result batches handed to update_context
CMBatches ==
    {<<>>,
     <<ToolResult("snowflake_query", "error", "full", None)>>,
     <<ToolResult("snowflake_query", "success", "full", None),
       ToolResult("data_analysis", "success", "full", None),
       ToolResult("snowflake_query", "success", "empty", None)>>,
     AllSucceed(<<"custom_b", "custom_a">>),
     AllSucceed(<<"custom_c", "custom_c">>),
     AllSucceed(SubSeq(NameOrder, 1, RecentToolsKept + 1)),
     AllSucceed([i \in 1..Len(NameOrder) |-> NameOrder[Len(NameOrder) + 1 - i]])}

InitCM ==
    /\ max_history_size \in 0..MaxHistoryCap
    /\ session_contexts = [s \in {} |-> NewSession(0)]
    /\ n_updates = 0
    /\ cm_call = NoCMCall
    /\ AgentIdle
    /\ ScoreIdle
    /\ ConnIdle
    /\ FlowsIdle
    /\ RegistryIdle
    /\ PlanIdle

UpdateContextCall ==
    /\ n_updates < MaxUpdates
    /\ \E ctx \in CMContexts, batch \in CMBatches :
          /\ session_contexts' =
                 update_context(session_contexts, max_history_size,
                                [ctx EXCEPT !.timestamp = n_updates], batch,
                                n_updates)
          /\ cm_call' = CMCall("update_context", ctx.session_id, batch, NoContext)
    /\ n_updates' = n_updates + 1
    /\ UNCHANGED <<max_history_size, avars, svars, rvars, pvars, xvars>>

\* ContextManager.clear_session_context: `del self.session_contexts[session_id]`
clear_every_session(sessions, session_id) == [s \in {} |-> sessions[s]]
clear_session_context(sessions, session_id) ==
    [s \in DOMAIN sessions \ {session_id} |-> sessions[s]]

ClearSessionContextCall ==
    /\ \E session_id \in SessionIds :
          /\ session_id \in DOMAIN session_contexts
          /\ session_contexts' = clear_session_context(session_contexts, session_id)
          /\ cm_call' = CMCall("clear_session_context", session_id, <<>>, NoContext)
    /\ UNCHANGED <<max_history_size, n_updates, avars, svars, rvars, pvars, xvars>>

\* the session_id arguments of build_context: absent, or a label
SessionArguments == {None} \cup SessionIds

BuildContextCall ==
    /\ \E session_id \in SessionArguments :
          cm_call' = CMCall("build_context", session_id, <<>>,
                            build_context(session_contexts, "hello", FALSE,
                                          session_id, NoAdditionalContext,
                                          n_updates))
    /\ UNCHANGED <<max_history_size, session_contexts, n_updates, avars, svars,
                   rvars, pvars, xvars>>

NextCM == UpdateContextCall \/ ClearSessionContextCall \/ BuildContextCall

SpecCM == InitCM /\ [][NextCM]_vars

\* C8: after any sequence of update_context calls, for every configured
\* max_history_size >= 0, every session's history has at most
\* max_history_size entries.
C8_HistoryWithinCap ==
    \A s \in DOMAIN session_contexts :
        Len(session_contexts[s].history) <= max_history_size

\* C9: after any sequence of update_context calls every session's
\* recent_tools has at most 10 entries and names no tool twice.
C9_RecentToolsBounded ==
    \A s \in DOMAIN session_contexts :
        LET recent == session_contexts[s].recent_tools
        IN  /\ Len(recent) <= RecentToolsKept
            /\ \A i, j \in 1..Len(recent) : recent[i] = recent[j] => i = j

\* a session that took a batch of more than 10 distinct tools, one of them
\* already known, and kept exactly 10
C9_Witness ==
    \E s \in DOMAIN session_contexts :
        LET h == session_contexts[s].history
        IN  /\ Len(h) >= 2
            /\ Len(h[Len(h) - 1].tool_results) > 0
            /\ Cardinality({h[Len(h)].tool_results[i].tool_name :
                              i \in 1..Len(h[Len(h)].tool_results)}) > RecentToolsKept
            /\ Len(session_contexts[s].recent_tools) = RecentToolsKept

-----------------------------------------------------------------------------
(* Specification Spec: one call of IntelligentAgent.process_request *)

\* additional_context values
RawData ==
    [has |-> {"raw_data", "data"}, truthy |-> {"raw_data", "data"},
     recent_tool_usage |-> <<>>, json_ok |-> TRUE]

\* an additional_context holding a value json.dumps rejects
Attachment ==
    [has |-> {"attachment"}, truthy |-> {"attachment"},
     recent_tool_usage |-> <<>>, json_ok |-> FALSE]

ProcessRequestCall(request, user_id_given, additional) ==
    [user_request |-> request, user_id_given |-> user_id_given,
     additional_context |-> additional]

\* the calls of process_request(user_request, user_id, additional_context)
ProcessRequestCalls ==
    {ProcessRequestCall("hello", FALSE, NoAdditionalContext),
     ProcessRequestCall("ok then", TRUE, NoAdditionalContext),
     ProcessRequestCall("list this data", FALSE, RawData),
     ProcessRequestCall("show tables", FALSE, NoAdditionalContext),
     ProcessRequestCall("show me tables available in the warehouse", TRUE,
                        NoAdditionalContext),
     ProcessRequestCall("show me tables available in the warehouse", FALSE,
                        Attachment),
     ProcessRequestCall("analyze activity trends and insights for today", FALSE,
                        RawData)}

\* an element of the reply holding the three keys
PlannedAction(tool_name, parameters, priority) ==
    ActionObject({"tool_name", "parameters", "priority"}, tool_name, parameters,
                 priority)

\* the replies of the planning backend
PlannerReplies ==
    {PlanReply("actions", <<PlannedAction("snowflake_query", Parameters({"query"}, {}), 1)>>),
     PlanReply("actions", <<PlannedAction("data_analysis", Parameters({"data"}, {}), 2),
                            PlannedAction("snowflake_query", Parameters({"query"}, {}), 1)>>),
     PlanReply("actions", <<PlannedAction("web_search", Parameters({"query"}, {}), 1)>>),
     PlanReply("actions", <<PlannedAction("database_query", Parameters({}, {"user_id"}), 1),
                            PlannedAction("notion_search", Parameters({"query"}, {}), 1)>>),
     PlanReply("actions", <<>>),
     PlanReply("no_array", <<>>),
     PlanReply("backend_error", <<>>)}

\* the replies of the sufficiency backend
SufficiencyReplies ==
    {SufficiencyReply("text", "YES"),
     SufficiencyReply("text", "NO"),
     SufficiencyReply("text", " yes, that is enough"),
     SufficiencyReply("none", ""),
     SufficiencyReply("raise", "")}

NotAsked == SufficiencyReply("not asked", "")

Init ==
    /\ pc = "start"
    /\ user_request = ""
    /\ context = NoContext
    /\ iteration = 0
    /\ current_context = NoContext
    /\ tool_actions = <<>>
    /\ sorted_actions = <<>>
    /\ action_idx = 0
    /\ results = <<>>
    /\ all_tool_results = <<>>
    /\ all_tool_actions = <<>>
    /\ returned = NothingReturned
    /\ raised = NothingRaised
    /\ calls = [select_tools |-> 0, planner |-> 0, tools |-> 0]
    /\ exec_log = <<>>
    /\ passes = <<>>
    /\ CMIdle
    /\ ScoreIdle
    /\ ConnIdle
    /\ FlowsIdle
    /\ RegistryIdle
    /\ PlanIdle

\* process_request is entered: build_context runs before the try block
BuildContext ==
    /\ pc = "start"
    /\ \E call \in ProcessRequestCalls :
          /\ user_request' = call.user_request
          /\ context' = build_context(session_contexts, call.user_request,
                                      call.user_id_given, None,
                                      call.additional_context, 0)
    /\ pc' = "check"
    /\ UNCHANGED <<iteration, current_context, tool_actions, sorted_actions,
                   action_idx, results, all_tool_results, all_tool_actions,
                   returned, raised, calls, exec_log, passes, cvars, svars, rvars, pvars, xvars>>

\* an exception is raised at a site of process_request: inside the try block
\* the except branch returns the error record, outside it the exception
\* leaves process_request
RaiseAt(site, text) ==
    /\ raised' = [site |-> site, text |-> text]
    /\ IF InsideTry(site)
       THEN /\ returned' = ErrorReturn(text, context)
            /\ pc' = "done"
       ELSE /\ returned' = returned
            /\ pc' = "propagated"

\* step 1: the conversational check and, when it holds, the direct reply
ConversationalCheck ==
    /\ pc = "check"
    /\ IF ConversationalExit(user_request)
       THEN /\ \E response \in Responses :
                  returned' = ConversationalReturn("conversational", response, context)
            /\ pc' = "done"
       ELSE /\ pc' = "loop"
            /\ UNCHANGED returned
    /\ UNCHANGED <<user_request, context, iteration, current_context, tool_actions,
                   sorted_actions, action_idx, results, all_tool_results,
                   all_tool_actions, raised, calls, exec_log, passes, cvars, svars, rvars, pvars, xvars>>

NewPass(planned) ==
    [planned |-> planned, checked |-> FALSE, had_success |-> FALSE,
     reply |-> NotAsked, sufficient |-> FALSE]

\* one pass of the loop up to the start of execution: the iteration-scoped
\* context, _analyze_and_select_tools, and the sort that opens _execute_tools
PlanIteration ==
    /\ pc = "loop"
    /\ LoopGuard(iteration)
    /\ iteration' = iteration + 1
    /\ LET ctx == CurrentContext(context, all_tool_results)
           recommended == select_tools(registry.tools, user_request, ctx)
           first_id == Len(all_tool_actions) + 1
       IN  /\ current_context' = ctx
           /\ IF recommended = <<>>
              \* no candidate: the plan is empty and the loop is left
              THEN /\ tool_actions' = <<>>
                   /\ passes' = Append(passes, NewPass(0))
                   /\ calls' = [calls EXCEPT !.select_tools = @ + 1]
                   /\ pc' = "after_loop"
                   /\ UNCHANGED <<sorted_actions, action_idx, results, exec_log,
                                  returned, raised>>
              ELSE IF ~ctx.json_ok
              \* json.dumps(context) raises while the planning prompt is built
              THEN /\ RaiseAt("planning", "Object is not JSON serializable")
                   /\ passes' = Append(passes, NewPass(0))
                   /\ calls' = [calls EXCEPT !.select_tools = @ + 1]
                   /\ UNCHANGED <<tool_actions, sorted_actions, action_idx, results,
                                  exec_log>>
              ELSE \E reply \in PlannerReplies :
                   LET actions == get_tool_actions_from_llm(user_request, recommended,
                                                            ctx, reply, first_id)
                   IN  /\ tool_actions' = actions
                       /\ passes' = Append(passes, NewPass(Len(actions)))
                       /\ calls' = [calls EXCEPT !.select_tools = @ + 1,
                                                 !.planner = @ + 1]
                       /\ UNCHANGED <<returned, raised>>
                       /\ IF actions = <<>>
                          THEN /\ pc' = "after_loop"
                               /\ UNCHANGED <<sorted_actions, action_idx, results,
                                              exec_log>>
                          ELSE /\ sorted_actions' = SortByPriority(actions)
                               /\ action_idx' = 1
                               /\ results' = <<>>
                               /\ exec_log' = <<>>
                               /\ pc' = "execute"
    /\ UNCHANGED <<user_request, context, all_tool_results, all_tool_actions,
                   cvars, svars, rvars, pvars, xvars>>

\* the budget is used up: the loop is left
LoopExit ==
    /\ pc = "loop"
    /\ ~LoopGuard(iteration)
    /\ pc' = "after_loop"
    /\ UNCHANGED <<user_request, context, iteration, current_context, tool_actions,
                   sorted_actions, action_idx, results, all_tool_results,
                   all_tool_actions, returned, raised, calls, exec_log, passes,
                   cvars, svars, rvars, pvars, xvars>>

\* what one turn of the loop did: the stage it reached ("lookup" when the
\* tool was not found, "validate" when validate_parameters raised, "execute"
\* when execute was called), its outcome and the index of its ToolResult
LogEntry(action, stage, outcome, result) ==
    [action_id |-> action.action_id, priority |-> action.priority,
     tool_name |-> action.tool_name, parameters |-> action.parameters,
     stage |-> stage, outcome |-> outcome, result |-> result]

\* what the loop appends to results for a tool the registry does not hold:
\* nothing, the turn ends with `continue`
NotFoundResult(t) == <<ToolResult(t, "error", None, "Tool not found")>>
SkippedResult(t) == <<>>

\* context[f"tool_result_{name}"] = result.data
NoInjection(ctx, result) == ctx
InjectResult(ctx, result) ==
    LET key == "tool_result_" \o result.tool_name
    IN  [ctx EXCEPT !.has = @ \cup {key},
                    !.truthy = IF DataTruthy(result.data) THEN @ \cup {key}
                               ELSE @ \ {key},
                    !.payloads = [k \in DOMAIN @ \cup {key} |->
                                     IF k = key THEN result.data ELSE @[k]]]

\* one turn of the `for action in sorted_actions` loop of _execute_tools
ExecuteAction ==
    /\ pc = "execute"
    /\ action_idx <= Len(sorted_actions)
    /\ LET action == sorted_actions[action_idx]
           t == action.tool_name
       IN  IF ~Registered(t)
           THEN /\ exec_log' = Append(exec_log,
                                       LogEntry(action, "lookup", "skipped", 0))
                /\ results' = results \o SkippedResult(t)
                /\ UNCHANGED <<current_context, calls>>
           ELSE \E env \in ToolEnvs :
                LET validation == validate_parameters(t, action.parameters)
                    execution == execute(t, action.parameters, env)
                    next == Len(results) + 1
                IN  /\ calls' = [calls EXCEPT !.tools = @ + 1]
                    /\ IF validation.raised \/ execution.raised
                       THEN /\ results' = Append(results,
                                   ToolResult(t, "error", None,
                                              IF validation.raised THEN validation.text
                                              ELSE execution.text))
                            /\ exec_log' = Append(exec_log,
                                   LogEntry(action,
                                            IF validation.raised THEN "validate"
                                            ELSE "execute", "raised", next))
                            /\ UNCHANGED current_context
                       ELSE /\ results' = Append(results, execution.result)
                            /\ exec_log' = Append(exec_log,
                                   LogEntry(action, "execute",
                                            IF execution.caught THEN "raised inside"
                                            ELSE "returned", next))
                            /\ current_context' = InjectResult(current_context,
                                                               execution.result)
    /\ action_idx' = action_idx + 1
    /\ UNCHANGED <<pc, user_request, context, iteration, tool_actions, sorted_actions,
                   all_tool_results, all_tool_actions, returned, raised, passes,
                   cvars, svars, rvars, pvars, xvars>>

HasSuccess(tool_results) == SuccessfulResults(tool_results) # <<>>

\* _execute_tools returns; the results are accumulated, the sufficiency check
\* runs and, when it fails, update_context closes the pass
CheckSufficiency ==
    /\ pc = "execute"
    /\ action_idx > Len(sorted_actions)
    /\ LET all_results == all_tool_results \o results
       IN  /\ all_tool_results' = all_results
           /\ all_tool_actions' = all_tool_actions \o tool_actions
           /\ \E reply \in (IF HasSuccess(all_results) THEN SufficiencyReplies
                            ELSE {NotAsked}) :
                 LET sufficient == has_sufficient_information(all_results, reply)
                 IN  /\ passes' = [passes EXCEPT ![Len(passes)] =
                                      [planned |-> @.planned, checked |-> TRUE,
                                       had_success |-> HasSuccess(all_results),
                                       reply |-> reply, sufficient |-> sufficient]]
                     /\ IF sufficient
                        THEN /\ pc' = "after_loop"
                             /\ UNCHANGED session_contexts
                        ELSE /\ pc' = "loop"
                             /\ session_contexts' =
                                    update_context(session_contexts, max_history_size,
                                                   context, results, 0)
    /\ UNCHANGED <<user_request, context, iteration, current_context, tool_actions,
                   sorted_actions, action_idx, results, returned, raised, calls,
                   exec_log, max_history_size, n_updates, cm_call, svars, rvars,
                   pvars, xvars>>

\* after the loop: the conversational fallback, or synthesis, the last
\* update_context and the success record
Finish ==
    /\ pc = "after_loop"
    /\ IF NoToolResults(all_tool_results)
       THEN /\ \E response \in Responses :
                  returned' = ConversationalReturn("conversational_fallback",
                                                   response, context)
            /\ pc' = "done"
            /\ UNCHANGED <<raised, session_contexts>>
       ELSE IF SummaryUnserializable(all_tool_results) \/ ~context.json_ok
       \* json.dumps raises while the synthesis prompt is built
       THEN /\ RaiseAt("synthesis", "Object is not JSON serializable")
            /\ UNCHANGED session_contexts
       ELSE /\ \E response \in Responses :
                  returned' = SuccessReturn(response, all_tool_results,
                                            all_tool_actions, context)
            /\ session_contexts' =
                   update_context(session_contexts, max_history_size, context,
                                  all_tool_results, 0)
            /\ pc' = "done"
            /\ UNCHANGED raised
    /\ UNCHANGED <<user_request, context, iteration, current_context, tool_actions,
                   sorted_actions, action_idx, results, all_tool_results,
                   all_tool_actions, calls, exec_log, passes, max_history_size,
                   n_updates, cm_call, svars, rvars, pvars, xvars>>

Next ==
    \/ BuildContext
    \/ ConversationalCheck
    \/ PlanIteration
    \/ LoopExit
    \/ ExecuteAction
    \/ CheckSufficiency
    \/ Finish

Spec == Init /\ [][Next]_vars

-----------------------------------------------------------------------------
(* Specification SpecExec: one call of _execute_tools on any action list *)

MaxActions == 2
MaxPriority == 2

\* the (tool, parameters) pairs the action lists are built from
ExecCalls ==
    {<<"snowflake_query", Parameters({"query"}, {})>>,
     <<"snowflake_query", Parameters({"data"}, {})>>,
     <<"snowflake_query", NotAMapping>>,
     <<"data_analysis", Parameters({"data"}, {})>>,
     <<"data_analysis", Parameters({"query"}, {})>>,
     <<"database_query", Parameters({"date"}, {"user_id"})>>,
     <<"database_query", Parameters({"date"}, {})>>,
     <<"notion_search", Parameters({"query"}, {})>>,
     <<"web_search", Parameters({"query"}, {})>>}

\* every list of 1..MaxActions actions with priorities 1..MaxPriority;
\* an action's id is its position in the list
ActionLists ==
    UNION {{[i \in 1..n |-> ToolAction(pick[i][1][1], pick[i][1][2], pick[i][2], i)] :
               pick \in [1..n -> ExecCalls \X (1..MaxPriority)]} : n \in 1..MaxActions}

InitExec ==
    /\ pc = "execute_tools"
    /\ tool_actions \in ActionLists
    /\ current_context = CurrentContext(NoContext, <<>>)
    /\ user_request = ""
    /\ context = NoContext
    /\ iteration = 0
    /\ sorted_actions = <<>>
    /\ action_idx = 0
    /\ results = <<>>
    /\ all_tool_results = <<>>
    /\ all_tool_actions = <<>>
    /\ returned = NothingReturned
    /\ raised = NothingRaised
    /\ calls = [select_tools |-> 0, planner |-> 0, tools |-> 0]
    /\ exec_log = <<>>
    /\ passes = <<>>
    /\ CMIdle
    /\ ScoreIdle
    /\ ConnIdle
    /\ FlowsIdle
    /\ RegistryIdle
    /\ PlanIdle

\* _execute_tools is entered: the actions are sorted by priority
EnterExecuteTools ==
    /\ pc = "execute_tools"
    /\ sorted_actions' = SortByPriority(tool_actions)
    /\ action_idx' = 1
    /\ results' = <<>>
    /\ exec_log' = <<>>
    /\ pc' = "execute"
    /\ UNCHANGED <<user_request, context, iteration, current_context, tool_actions,
                   all_tool_results, all_tool_actions, returned, raised, calls,
                   passes, cvars, svars, rvars, pvars, xvars>>

\* _execute_tools returns its results
ReturnResults ==
    /\ pc = "execute"
    /\ action_idx > Len(sorted_actions)
    /\ pc' = "executed"
    /\ UNCHANGED <<user_request, context, iteration, current_context, tool_actions,
                   sorted_actions, action_idx, results, all_tool_results,
                   all_tool_actions, returned, raised, calls, exec_log, passes,
                   cvars, svars, rvars, pvars, xvars>>

NextExec == EnterExecuteTools \/ ExecuteAction \/ ReturnResults

SpecExec == InitExec /\ [][NextExec]_vars

-----------------------------------------------------------------------------
(* Specification SpecSufficiency: _has_sufficient_information on any batch *)

MaxBatch == 2

\* the results a batch is built from
BatchResults ==
    {ToolResult("snowflake_query", "success", "full", None),
     ToolResult("snowflake_query", "error", "full", None),
     ToolResult("data_analysis", "success", "full", None),
     ToolResult("data_analysis", "error", None, "Data parameter is required"),
     ToolResult("drive_search", "partial", "empty", None),
     ToolResult("notion_search", "skipped", None, None)}

Batches == UNION {[1..n -> BatchResults] : n \in 0..MaxBatch}

InitSufficiency ==
    /\ pc = "sufficiency"
    /\ all_tool_results \in Batches
    /\ user_request = ""
    /\ context = NoContext
    /\ iteration = 0
    /\ current_context = NoContext
    /\ tool_actions = <<>>
    /\ sorted_actions = <<>>
    /\ action_idx = 0
    /\ results = <<>>
    /\ all_tool_actions = <<>>
    /\ returned = NothingReturned
    /\ raised = NothingRaised
    /\ calls = [select_tools |-> 0, planner |-> 0, tools |-> 0]
    /\ exec_log = <<>>
    /\ passes = <<>>
    /\ CMIdle
    /\ ScoreIdle
    /\ ConnIdle
    /\ FlowsIdle
    /\ RegistryIdle
    /\ PlanIdle

\* one call of _has_sufficient_information; the reply is what the backend
\* answers, or would answer if it were asked
HasSufficientInformationCall ==
    /\ pc = "sufficiency"
    /\ \E reply \in SufficiencyReplies :
          passes' = <<[planned |-> 0, checked |-> TRUE,
                       had_success |-> HasSuccess(all_tool_results),
                       reply |-> reply,
                       sufficient |-> has_sufficient_information(all_tool_results,
                                                                 reply)]>>
    /\ pc' = "answered"
    /\ UNCHANGED <<user_request, context, iteration, current_context, tool_actions,
                   sorted_actions, action_idx, results, all_tool_results,
                   all_tool_actions, returned, raised, calls, exec_log, cvars, svars, rvars, pvars, xvars>>

NextSufficiency == HasSufficientInformationCall

SpecSufficiency == InitSufficiency /\ [][NextSufficiency]_vars

-----------------------------------------------------------------------------
(* Specification SpecRegistry: a ToolRegistry from its construction on,      *)
(* with register_tool, initialize, cleanup, and the two lookups              *)
(* get_tools_for_intent and ToolSelector.select_tools made on it             *)

\* register_tool is called while the registry holds fewer instances than this
MaxRegistered == 2

\* the instances handed to register_tool
ToolPool ==
    {ToolInstance("database_query", TRUE, FALSE, TRUE),
     ToolInstance("database_query", FALSE, FALSE, FALSE),
     ToolInstance("drive_search", TRUE, FALSE, FALSE),
     ToolInstance("slack_send_message", TRUE, TRUE, FALSE),
     ToolInstance("notion_search", TRUE, TRUE, FALSE),
     ToolInstance("user_data_tool", TRUE, FALSE, TRUE)}

\* the requests of the lookups
LookupRequests ==
    {"hello",
     "daily report of user activity data",
     "find the policy document template"}

\* the context keys present next to the request
LookupKeys ==
    {{},
     {"date"},
     {"user_id", "date", "database_connection", "google_auth", "processed_data",
      "raw_data"}}

\* context.get("recent_tool_usage", [])
LookupRecent == {<<>>, <<"database_query", "user_data_tool">>}

LookupContext(request, keys, recent) ==
    [NoContext EXCEPT !.user_request = request, !.has = keys, !.truthy = keys,
                      !.recent_tool_usage = recent]

RegistryCall(op, before, request, ctx, result, did_raise) ==
    [op |-> op, before |-> before, request |-> request, context |-> ctx,
     result |-> result, raised |-> did_raise]

\* the lookups only read the registry, so one lookup is observed after each
\* change of the registry
AfterChange == r_call.op \notin {"get_tools_for_intent", "select_tools"}

InitRegistry ==
    /\ registry = EmptyRegistry
    /\ r_call = NoRegistryCall
    /\ AgentIdle
    /\ CMIdle
    /\ ScoreIdle
    /\ ConnIdle
    /\ FlowsIdle
    /\ PlanIdle

RegisterToolCall ==
    \E tool \in ToolPool :
        /\ Len(registry.tools) < MaxRegistered
        /\ registry' = register_tool(registry, tool)
        /\ r_call' = RegistryCall("register_tool", registry, "", NoContext, <<>>, FALSE)
        /\ UNCHANGED <<avars, cvars, svars, pvars, xvars>>

\* the tool configs handed to initialize: the names with enabled = false
ToolConfigs == {{}, {"database_query"}, {"drive_search", "notion_search"}}

InitializeCall ==
    /\ \E config \in ToolConfigs : registry' = initialize(registry, config)
    /\ r_call' = RegistryCall("initialize", registry, "", NoContext, <<>>, FALSE)
    /\ UNCHANGED <<avars, cvars, svars, pvars, xvars>>

CleanupCall ==
    /\ registry' = cleanup(registry).registry
    /\ r_call' = RegistryCall("cleanup", registry, "", NoContext, <<>>,
                              cleanup(registry).raised)
    /\ UNCHANGED <<avars, cvars, svars, pvars, xvars>>

GetToolsForIntentCall ==
    \E request \in LookupRequests, keys \in LookupKeys :
        LET ctx == LookupContext(request, keys, <<>>)
        IN  /\ AfterChange
            /\ r_call' = RegistryCall("get_tools_for_intent", registry, request, ctx,
                                      get_tools_for_intent(registry.tools, request, ctx,
                                                           min_confidence),
                                      FALSE)
            /\ UNCHANGED <<registry, avars, cvars, svars, pvars, xvars>>

SelectToolsCall ==
    \E request \in LookupRequests, keys \in LookupKeys, recent \in LookupRecent :
        LET ctx == LookupContext(request, keys, recent)
        IN  /\ AfterChange
            /\ r_call' = RegistryCall("select_tools", registry, request, ctx,
                                      select_tools(registry.tools, request, ctx), FALSE)
            /\ UNCHANGED <<registry, avars, cvars, svars, pvars, xvars>>

NextRegistry ==
    \/ RegisterToolCall
    \/ InitializeCall
    \/ CleanupCall
    \/ GetToolsForIntentCall
    \/ SelectToolsCall

SpecRegistry == InitRegistry /\ [][NextRegistry]_vars

-----------------------------------------------------------------------------
(* Specification SpecPlan: one _get_tool_actions_from_llm call, from the     *)
(* backend's reply on                                                        *)

\* the longest list of recommended tools handed to the call
MaxRecommended == 4

\* a ranking as select_tools returns it
Ranking ==
    <<[tool |-> "snowflake_query", confidence |-> Tenth(9)],
      [tool |-> "database_query", confidence |-> Tenth(7)],
      [tool |-> "drive_search", confidence |-> Tenth(5)],
      [tool |-> "data_analysis", confidence |-> Tenth(3)],
      [tool |-> "summary_generation", confidence |-> Tenth(2)]>>

RecommendedLists ==
    {SubSeq(Ranking, 1, Min(n, Len(Ranking))) : n \in 0..MaxRecommended}

PlanRequests == {"show tables", "weekly summary for user u1"}

PlanContexts ==
    {LookupContext(request, keys, <<>>) :
        request \in PlanRequests,
        keys \in {{}, {"user_id"}, {"date"}, {"user_id", "date", "raw_data"}}}

\* the replies of the planning backend, with arrays whose elements lack a key
\* or are not objects at all
PlanCallReplies ==
    PlannerReplies \cup
    {PlanReply("bad_json", <<>>),
     PlanReply("actions",
               <<ActionObject({"tool_name", "parameters"}, "snowflake_query",
                              Parameters({"query"}, {}), 0)>>),
     PlanReply("actions",
               <<PlannedAction("snowflake_query", Parameters({"query"}, {}), 1),
                 ActionObject({"tool_name", "priority"}, "data_analysis",
                              NotAMapping, 2)>>),
     PlanReply("actions",
               <<ActionObject({"parameters"}, "", Parameters({"query"}, {}), 0)>>),
     PlanReply("actions", <<ActionObject({}, "", NotAMapping, 0)>>)}

InitPlan ==
    /\ \E ctx \in PlanContexts, recommended \in RecommendedLists,
          reply \in PlanCallReplies :
           plan_call = [called |-> FALSE, request |-> ctx.user_request,
                        context |-> ctx, recommended |-> recommended,
                        reply |-> reply, actions |-> <<>>]
    /\ AgentIdle
    /\ CMIdle
    /\ ScoreIdle
    /\ ConnIdle
    /\ FlowsIdle
    /\ RegistryIdle

GetToolActionsCall ==
    /\ ~plan_call.called
    /\ plan_call' = [plan_call EXCEPT
                        !.called = TRUE,
                        !.actions = get_tool_actions_from_llm(
                                        plan_call.request, plan_call.recommended,
                                        plan_call.context, plan_call.reply, 1)]
    /\ UNCHANGED <<avars, cvars, svars, rvars, xvars>>

NextPlan == GetToolActionsCall

SpecPlan == InitPlan /\ [][NextPlan]_vars

-----------------------------------------------------------------------------
(* Specification SpecConn: threads calling execute_query and cleanup on the  *)
(* shared SnowflakeConnectionManager, while time passes and the server may   *)
(* drop a connection                                                         *)

\* sf.connect() succeeds while fewer connections than this were made
MaxConnections == 2

\* the clock stops here
MaxClock == 2

\* a step of thread t: the other threads and the flows stand still
Step(t, thread) ==
    /\ threads' = [threads EXCEPT ![t] = thread]
    /\ actor' = t
    /\ UNCHANGED <<avars, cvars, svars, rvars, pvars, fvars>>

\* a thread enters execute_query (line 128: get_connection) or cleanup
\* (line 174: _close_connection)
CallStep(t) ==
    /\ threads[t].pc = "idle"
    /\ \E op \in {"execute_query", "cleanup"} :
          Step(t, [IdleThread EXCEPT
                      !.op = op,
                      !.pc = IF op = "cleanup" THEN "close_107" ELSE "acquire"])
    /\ UNCHANGED <<manager, server>>

\* get_connection, line 49: with self._lock
Acquire(t) ==
    /\ threads[t].pc = "acquire"
    /\ manager.lock = "none"
    /\ manager' = [manager EXCEPT !.lock = t]
    /\ Step(t, [threads[t] EXCEPT !.pc = "valid_61", !.judged = "none",
                                  !.old = NoConnection, !.created = NoConnection])
    /\ UNCHANGED server

\* _is_connection_valid, line 61
Valid61(t) ==
    /\ threads[t].pc = "valid_61"
    /\ Step(t, [threads[t] EXCEPT
                   !.pc = IF \/ manager.connection = NoConnection
                             \/ manager.connection_time = NoTime
                          THEN "create_90" ELSE "valid_65"])
    /\ UNCHANGED <<manager, server>>

\* _is_connection_valid, line 65: the subtraction raises TypeError when
\* connection_time has become None; an expired connection is closed (line 67)
Valid65(t) ==
    /\ threads[t].pc = "valid_65"
    /\ IF manager.connection_time = NoTime
       THEN /\ manager' = Release(manager)
            /\ Step(t, Returned(threads[t], manager, NoConnection, TRUE))
       ELSE /\ UNCHANGED manager
            /\ Step(t, IF Expired(server.now, manager.connection_time)
                       THEN [threads[t] EXCEPT !.pc = "close_107",
                                               !.after_close = "create_90",
                                               !.judged = "expired",
                                               !.old = manager.connection]
                       ELSE [threads[t] EXCEPT !.pc = "valid_probe"])
    /\ UNCHANGED server

\* _is_connection_valid, lines 71-81: the probe; a failure closes the
\* connection (line 80)
ValidProbe(t) ==
    /\ threads[t].pc = "valid_probe"
    /\ Step(t, IF ProbeFails(manager.connection, server)
               THEN [threads[t] EXCEPT !.pc = "close_107",
                                       !.after_close = "create_90",
                                       !.judged = "probe_failed",
                                       !.old = manager.connection]
               ELSE [threads[t] EXCEPT !.pc = "return_53"])
    /\ UNCHANGED <<manager, server>>

\* get_connection, line 53: return self.connection
Return53(t) ==
    /\ threads[t].pc = "return_53"
    /\ manager' = Release(manager)
    /\ Step(t, Returned(threads[t], manager, manager.connection, FALSE))
    /\ UNCHANGED server

\* _create_new_connection, line 90: close any existing connection
Create90(t) ==
    /\ threads[t].pc = "create_90"
    /\ Step(t, [threads[t] EXCEPT !.pc = "close_107", !.after_close = "create_93"])
    /\ UNCHANGED <<manager, server>>

\* _create_new_connection, line 93: self.connection = sf.connect(...), or the
\* connect error, after which lines 101-103 clear both fields and re-raise
Create93(t) ==
    /\ threads[t].pc = "create_93"
    /\ \/ /\ server.n_created < MaxConnections
          /\ manager' = [manager EXCEPT !.connection = server.n_created + 1]
          /\ server' = [server EXCEPT !.n_created = @ + 1]
          /\ Step(t, [threads[t] EXCEPT !.pc = "create_94",
                                        !.created = server.n_created + 1])
       \/ /\ manager' = [manager EXCEPT !.connection = NoConnection,
                                        !.connection_time = NoTime,
                                        !.lock = "none"]
          /\ Step(t, Returned(threads[t], manager', NoConnection, TRUE))
          /\ UNCHANGED server

\* _create_new_connection, line 94: self.connection_time = datetime.now()
Create94(t) ==
    /\ threads[t].pc = "create_94"
    /\ manager' = [manager EXCEPT !.connection_time = server.now]
    /\ Step(t, [threads[t] EXCEPT !.pc = "create_97"])
    /\ UNCHANGED server

\* _create_new_connection, line 97: return self.connection
Create97(t) ==
    /\ threads[t].pc = "create_97"
    /\ manager' = Release(manager)
    /\ Step(t, Returned(threads[t], manager, manager.connection, FALSE))
    /\ UNCHANGED server

\* _close_connection, line 107: if self.connection
Close107(t) ==
    /\ threads[t].pc = "close_107"
    /\ Step(t, [threads[t] EXCEPT
                   !.pc = IF manager.connection # NoConnection THEN "close_109"
                          ELSE threads[t].after_close])
    /\ UNCHANGED <<manager, server>>

\* _close_connection, line 109: self.connection.close(); on None the
\* AttributeError is caught and logged (line 111)
Close109(t) ==
    /\ threads[t].pc = "close_109"
    /\ server' = [server EXCEPT
                     !.closed = IF manager.connection = NoConnection THEN @
                                ELSE @ \cup {manager.connection}]
    /\ Step(t, [threads[t] EXCEPT !.pc = "close_114"])
    /\ UNCHANGED manager

\* _close_connection, lines 114-115: both fields are set to None
Close114(t) ==
    /\ threads[t].pc = "close_114"
    /\ manager' = [manager EXCEPT !.connection = NoConnection,
                                  !.connection_time = NoTime]
    /\ Step(t, IF threads[t].after_close = "idle" THEN IdleThread
               ELSE [threads[t] EXCEPT !.pc = threads[t].after_close])
    /\ UNCHANGED server

\* execute_query, lines 128 and 146: connection = self.get_connection(); an
\* exception of get_connection leaves execute_query
Got(t) ==
    /\ threads[t].pc = "got"
    /\ Step(t, IF threads[t].did_raise THEN IdleThread
               ELSE [threads[t] EXCEPT !.pc = "read_sql",
                                       !.local = threads[t].ret])
    /\ UNCHANGED <<manager, server>>

\* execute_query, lines 136 and 147: pd.read_sql(query, connection).  On a
\* closed connection the error names the closed connection and the first
\* attempt goes to the reconnect path (lines 143-146); on a dropped one the
\* message may or may not match; on None the error is re-raised
ReadSql(t) ==
    /\ threads[t].pc = "read_sql"
    /\ LET c == threads[t].local
           reconnect == [threads[t] EXCEPT !.pc = "close_107",
                                           !.after_close = "acquire",
                                           !.reconnecting = TRUE]
       IN  IF c = NoConnection \/ threads[t].reconnecting
           THEN Step(t, IdleThread)
           ELSE IF c \in server.closed
           THEN Step(t, reconnect)
           ELSE IF c \in server.dead
           THEN Step(t, reconnect) \/ Step(t, IdleThread)
           ELSE Step(t, IdleThread)
    /\ UNCHANGED <<manager, server>>

\* an hour passes
Tick ==
    /\ server.now < MaxClock
    /\ server' = [server EXCEPT !.now = @ + 1]
    /\ actor' = "clock"
    /\ UNCHANGED <<manager, threads, avars, cvars, svars, rvars, pvars, fvars>>

\* the server drops an open connection
Drop ==
    /\ \E c \in 1..server.n_created :
          /\ c \notin server.closed \cup server.dead
          /\ server' = [server EXCEPT !.dead = @ \cup {c}]
    /\ actor' = "server"
    /\ UNCHANGED <<manager, threads, avars, cvars, svars, rvars, pvars, fvars>>

ThreadStep(t) ==
    \/ CallStep(t)
    \/ Acquire(t)
    \/ Valid61(t)
    \/ Valid65(t)
    \/ ValidProbe(t)
    \/ Return53(t)
    \/ Create90(t)
    \/ Create93(t)
    \/ Create94(t)
    \/ Create97(t)
    \/ Close107(t)
    \/ Close109(t)
    \/ Close114(t)
    \/ Got(t)
    \/ ReadSql(t)

InitConn ==
    /\ ConnIdle
    /\ AgentIdle
    /\ CMIdle
    /\ ScoreIdle
    /\ RegistryIdle
    /\ PlanIdle
    /\ FlowsIdle

NextConn == (\E t \in Threads : ThreadStep(t)) \/ Tick \/ Drop

SpecConn == InitConn /\ [][NextConn]_vars

-----------------------------------------------------------------------------
(* Specification SpecFlows: process_request flows of one agent, all on the   *)
(* default session, interleaved at their awaits.  Between two awaits a flow  *)
(* runs alone on the event loop; what an awaited call returns is an input.   *)
(* flows.log lists the history entries in the order update_context was       *)
(* called with them, flows.prior is the number of entries left by earlier    *)
(* requests.                                                                 *)

\* the process_request coroutines in progress at once
FlowIds == {1, 2}

\* a flow before its first await
NewFlow(i) ==
    [pc |-> "start", context |-> NoContext, iteration |-> 0, tool_results |-> <<>>,
     all_tool_results |-> <<>>, updates |-> 0]

\* what _execute_tools returns to a flow
FlowBatches ==
    {<<ToolResult("snowflake_query", "success", "full", None)>>,
     <<ToolResult("data_analysis", "success", "full", None),
       ToolResult("snowflake_query", "error", None, "failed")>>}

\* the default session as earlier requests left it: n entries of one
\* successful query each
PriorEntry ==
    HistoryEntry([timestamp |-> 0, user_request |-> "show me the tables"],
                 <<ToolResult("snowflake_query", "success", "full", None)>>)

PriorHistory(n) == [k \in 1..n |-> PriorEntry]

PriorSessions(n) ==
    IF n = 0 THEN [s \in {} |-> NewSession(0)]
    ELSE [s \in {"default"} |->
             [NewSession(0) EXCEPT !.history = PriorHistory(n),
                                   !.recent_tools = <<"snowflake_query">>]]

\* the session store update_context works on: self.session_contexts, one
\* dict shared by every flow of the agent
OwnStore(sessions) == [s \in {} |-> NewSession(0)]
SharedStore(sessions) == sessions

\* update_context as called by a flow; it contains no await, the flow keeps
\* the event loop until it returns
FlowUpdate(sessions, ctx, tool_results) ==
    LET before == SharedStore(sessions)
        after == update_context(before, max_history_size, ctx, tool_results,
                                ctx.timestamp)
    IN  [s \in DOMAIN sessions \cup DOMAIN after |->
            IF s \in DOMAIN after THEN after[s] ELSE sessions[s]]

SetFlow(i, flow) == [flows EXCEPT !.procs[i] = flow]

Logged(fl, ctx, tool_results) ==
    [fl EXCEPT !.log = Append(@, HistoryEntry(ctx, tool_results))]

InitFlows ==
    /\ \E n \in {0, DefaultMaxHistorySize - 1} :
          /\ flows = [procs |-> [i \in FlowIds |-> NewFlow(i)], log |-> <<>>,
                      prior |-> n]
          /\ session_contexts = PriorSessions(n)
    /\ max_history_size = DefaultMaxHistorySize
    /\ n_updates = 0
    /\ cm_call = NoCMCall
    /\ AgentIdle
    /\ ScoreIdle
    /\ RegistryIdle
    /\ PlanIdle
    /\ ConnIdle

FlowFrame == UNCHANGED <<max_history_size, n_updates, cm_call, avars, svars, rvars,
                         pvars, nvars>>

\* lines 91-98: build_context, then the await of the conversational check,
\* which here answers no
FlowStart(i) ==
    /\ flows.procs[i].pc = "start"
    /\ flows' = SetFlow(i, [flows.procs[i] EXCEPT
                               !.pc = "plan",
                               !.context = build_context(session_contexts,
                                                         "show me the tables", FALSE,
                                                         None, NoAdditionalContext, i),
                               !.iteration = 1])
    /\ UNCHANGED session_contexts
    /\ FlowFrame

\* line 122: the await of _analyze_and_select_tools returns; with no action
\* the loop ends (line 125)
FlowPlan(i) ==
    /\ flows.procs[i].pc = "plan"
    /\ \E planned \in BOOLEAN :
          flows' = SetFlow(i, [flows.procs[i] EXCEPT
                                  !.pc = IF planned THEN "execute"
                                         ELSE IF flows.procs[i].all_tool_results = <<>>
                                         THEN "done" ELSE "respond"])
    /\ UNCHANGED session_contexts
    /\ FlowFrame

\* lines 128-130: the await of _execute_tools returns
FlowExecute(i) ==
    /\ flows.procs[i].pc = "execute"
    /\ \E batch \in FlowBatches :
          flows' = SetFlow(i, [flows.procs[i] EXCEPT
                                  !.pc = "sufficiency",
                                  !.tool_results = batch,
                                  !.all_tool_results = @ \o batch])
    /\ UNCHANGED session_contexts
    /\ FlowFrame

\* lines 133-137: the await of _has_sufficient_information returns; when
\* the answer is no, update_context runs and the loop goes on (line 116)
FlowSufficiency(i) ==
    /\ flows.procs[i].pc = "sufficiency"
    /\ LET flow == flows.procs[i]
       IN  \E sufficient \in BOOLEAN :
              IF sufficient
              THEN /\ flows' = SetFlow(i, [flow EXCEPT !.pc = "respond"])
                   /\ UNCHANGED session_contexts
              ELSE /\ session_contexts' =
                          FlowUpdate(session_contexts, flow.context, flow.tool_results)
                   /\ flows' =
                          Logged(SetFlow(i, [flow EXCEPT
                                                !.pc = IF LoopGuard(flow.iteration)
                                                       THEN "plan" ELSE "respond",
                                                !.iteration = IF LoopGuard(flow.iteration)
                                                              THEN @ + 1 ELSE @,
                                                !.updates = @ + 1]),
                                 flow.context, flow.tool_results)
    /\ FlowFrame

\* lines 152-157: the await of _generate_response returns and update_context
\* runs with all results, or it raises and the error record is returned
FlowRespond(i) ==
    /\ flows.procs[i].pc = "respond"
    /\ LET flow == flows.procs[i]
       IN  \/ /\ session_contexts' =
                     FlowUpdate(session_contexts, flow.context, flow.all_tool_results)
              /\ flows' = Logged(SetFlow(i, [flow EXCEPT !.pc = "done",
                                                         !.updates = @ + 1]),
                                 flow.context, flow.all_tool_results)
           \/ /\ flows' = SetFlow(i, [flow EXCEPT !.pc = "done"])
              /\ UNCHANGED session_contexts
    /\ FlowFrame

NextFlows ==
    \E i \in FlowIds :
        \/ FlowStart(i)
        \/ FlowPlan(i)
        \/ FlowExecute(i)
        \/ FlowSufficiency(i)
        \/ FlowRespond(i)

SpecFlows == InitFlows /\ [][NextFlows]_vars

-----------------------------------------------------------------------------
(* Properties of process_request (specification Spec) *)

\* every pass so far planned at least one action and ended with the
\* sufficiency check answering no
EveryPassInsufficient ==
    /\ passes # <<>>
    /\ \A i \in 1..Len(passes) :
          passes[i].planned > 0 /\ passes[i].checked /\ ~passes[i].sufficient

\* C1: the loop never starts a 4th iteration; a request whose every pass
\* planned a non-empty action list and was answered NO by the sufficiency
\* check ends after exactly 3 iterations, and it ends in synthesis with
\* status success if any tool succeeded.
C1_ThreeIterationsThenSynthesis ==
    /\ iteration <= max_iterations
    /\ (pc = "done" /\ EveryPassInsufficient) =>
          /\ iteration = max_iterations
          /\ HasSuccess(all_tool_results) => returned.status = "success"

\* the iteration phase was entered and left through the end of the loop
IterationPhaseEnded ==
    pc = "done" /\ passes # <<>> /\ raised.site # "planning"

\* C4: a request the conversational check accepts makes no call of the tool
\* selector, of the planner or of a tool, and its return has status
\* conversational with empty tool_results and tool_actions.
C4_ConversationalShortCircuit ==
    (pc # "start" /\ is_conversational_request(user_request)) =>
        /\ calls.select_tools = 0
        /\ calls.planner = 0
        /\ calls.tools = 0
        /\ pc \in {"check", "done"}
        /\ pc = "done" =>
              /\ returned.status = "conversational"
              /\ {"tool_results", "tool_actions"} \subseteq returned.keys
              /\ returned.tool_results = <<>>
              /\ returned.tool_actions = <<>>

\* the request "hello" has returned
C4_Witness ==
    pc = "done" /\ user_request = "hello" /\ returned.status = "conversational"

\* C6: an exception raised inside the top-level flow never leaves
\* process_request: the call returns a record with status error, the
\* exception text under error, and the request context.
C6_ExceptionsBecomeErrorRecords ==
    /\ pc # "propagated"
    /\ raised.site # "none" =>
          /\ pc = "done"
          /\ returned.status = "error"
          /\ {"error", "context"} \subseteq returned.keys
          /\ returned.error = raised.text
          /\ returned.error # ""
          /\ returned.context = context

\* synthesis raised after a tool had succeeded
C6_Witness ==
    /\ raised.site = "synthesis"
    /\ HasSuccess(all_tool_results)
    /\ returned.status = "error"

\* C7: when the iteration phase has ended, a request without any accumulated
\* result returns status conversational_fallback with empty tool_results;
\* any other request runs synthesis and returns status success with every
\* accumulated result.
C7_FallbackOrSynthesis ==
    IterationPhaseEnded =>
        IF all_tool_results = <<>>
        THEN /\ returned.status = "conversational_fallback"
             /\ returned.tool_results = <<>>
        ELSE /\ returned.status = "success"
             /\ Len(returned.tool_results) = Len(all_tool_results)
             /\ \A i \in 1..Len(all_tool_results) :
                   /\ returned.tool_results[i].tool_name = all_tool_results[i].tool_name
                   /\ returned.tool_results[i].status = all_tool_results[i].status

-----------------------------------------------------------------------------
(* Properties of _execute_tools (specification SpecExec) *)

\* C2: every action whose tool raised during validation or execution has a
\* result with status error and a non-empty error string, and every action
\* of the list is attempted.
C2_RaisingToolsRecorded ==
    /\ \A i \in 1..Len(exec_log) :
          exec_log[i].outcome \in {"raised", "raised inside"} =>
              /\ results[exec_log[i].result].status = "error"
              /\ results[exec_log[i].result].error # None
              /\ results[exec_log[i].result].error # ""
    /\ pc = "executed" => Len(exec_log) = Len(tool_actions)

\* the actions of the call that have not been taken up yet
PendingActions ==
    {tool_actions[k] : k \in {k \in 1..Len(tool_actions) :
        \A i \in 1..Len(exec_log) : exec_log[i].action_id # tool_actions[k].action_id}}

\* C3: _execute_tools takes the actions one at a time in non-decreasing
\* priority order: an action is taken up only when no action with a strictly
\* smaller priority is still waiting.
C3_PriorityOrder ==
    pc \in {"execute", "executed"} =>
        /\ Len(exec_log) = action_idx - 1
        /\ \A i, j \in 1..Len(exec_log) :
              i < j => exec_log[i].priority <= exec_log[j].priority
        /\ \A i \in 1..Len(exec_log) : \A a \in PendingActions :
              exec_log[i].priority <= a.priority

\* a list given in decreasing priority order was executed back to front
C3_Witness ==
    /\ pc = "executed"
    /\ Len(tool_actions) >= 2
    /\ tool_actions[1].priority > tool_actions[2].priority
    /\ exec_log[1].action_id = tool_actions[2].action_id

-----------------------------------------------------------------------------
(* Properties of _has_sufficient_information (specification SpecSufficiency) *)

\* C5: a batch without any result of status success, the empty batch
\* included, is never found sufficient, whatever the backend would answer
\* and also when the backend call fails.
C5_NoSuccessNeverSufficient ==
    (pc = "answered"
        /\ \A i \in 1..Len(all_tool_results) : all_tool_results[i].status # "success")
    => ~passes[1].sufficient

\* a non-empty batch of failures was checked while the backend says YES
C5_Witness ==
    /\ pc = "answered"
    /\ all_tool_results # <<>>
    /\ \A i \in 1..Len(all_tool_results) : all_tool_results[i].status # "success"
    /\ passes[1].reply = SufficiencyReply("text", "YES")
    /\ ~passes[1].sufficient

-----------------------------------------------------------------------------
(* Properties of the selector and the registry (specification SpecRegistry) *)

\* the names in a list of (tool, confidence) pairs
ResultNames(pairs) == {pairs[i].tool : i \in 1..Len(pairs)}

\* the enabled instance of that name held by the registry, if any
HeldEnabled(reg, name) ==
    \E i \in 1..Len(reg.tools) : reg.tools[i].name = name /\ reg.tools[i].enabled

\* the score the registry computed for a held tool
RegistryScore(reg, name, request, ctx) ==
    LET tool == reg.tools[CHOOSE i \in 1..Len(reg.tools) : reg.tools[i].name = name]
    IN  should_use(name, tool.enabled, tool.is_configured, request, ctx)

C13_CleanupNeverRaises ==
    r_call.op = "cleanup" =>
        /\ ~r_call.raised
        /\ registry.tools = <<>>
        /\ registry.tool_classes = <<>>
        /\ ~registry.initialized
        /\ (r_call.before.tools = <<>> /\ ~r_call.before.initialized)
               => registry = r_call.before

\* an initialized registry holding a tool whose cleanup raises was cleaned up
C13_Witness ==
    /\ r_call.op = "cleanup"
    /\ r_call.before.initialized
    /\ \E i \in 1..Len(r_call.before.tools) : r_call.before.tools[i].cleanup_raises
    /\ registry = EmptyRegistry

\* the place of a tool in the registry's dict order
Position(reg, name) == CHOOSE i \in 1..Len(reg.tools) : reg.tools[i].name = name

\* C14: get_tools_for_intent returns exactly the registered tools that are
\* enabled and score min_confidence or more, each once and with its score,
\* in descending order of score; tools of equal score stay in registration
\* order.
C14_EnabledAboveThresholdInOrder ==
    r_call.op = "get_tools_for_intent" =>
        LET reg == r_call.before
            result == r_call.result
            Score(name) == RegistryScore(reg, name, r_call.request, r_call.context)
        IN  /\ ResultNames(result) =
                   {reg.tools[i].name : i \in {i \in 1..Len(reg.tools) :
                        /\ reg.tools[i].enabled
                        /\ Score(reg.tools[i].name) >= min_confidence}}
            /\ Len(result) = Cardinality(ResultNames(result))
            /\ \A i \in 1..Len(result) : result[i].confidence = Score(result[i].tool)
            /\ \A i, j \in 1..Len(result) :
                   i < j => \/ result[i].confidence > result[j].confidence
                            \/ /\ result[i].confidence = result[j].confidence
                               /\ Position(reg, result[i].tool)
                                      < Position(reg, result[j].tool)

\* Slack was registered before Notion (the reverse of the discovery order),
\* both score the same, and Slack comes first
C14_Witness ==
    /\ r_call.op = "get_tools_for_intent"
    /\ Len(r_call.result) = 2
    /\ r_call.result[1].tool = "slack_send_message"
    /\ r_call.result[2].tool = "notion_search"
    /\ r_call.result[1].confidence = r_call.result[2].confidence

\* C15: the list returned by select_tools is in descending order of the
\* adjusted confidence.
C15_SortedByAdjustedConfidence ==
    r_call.op = "select_tools" =>
        \A i, j \in 1..Len(r_call.result) :
            i < j => r_call.result[i].confidence >= r_call.result[j].confidence

-----------------------------------------------------------------------------
(* Properties of planning (specification SpecPlan) *)

\* extracting or parsing the reply fails: the backend call raised, no
\* bracketed array was found, the array is not valid JSON, or an element has
\* no tool_name or no parameters
ReplyFails(reply) ==
    \/ reply.kind \in {"backend_error", "no_array", "bad_json"}
    \/ /\ reply.kind = "actions"
       /\ \E i \in 1..Len(reply.actions) :
              \/ "tool_name" \notin reply.actions[i].keys
              \/ "parameters" \notin reply.actions[i].keys

-----------------------------------------------------------------------------
(* Further properties of the loop (specification Spec) *)

\* the backend's text, stripped and upper-cased as the check does, begins
\* with YES
BeginsWithYes(reply) ==
    reply.kind = "text" /\ StartsWith(Upper(Strip(reply.text)), "YES")

\* the backend call raised, or returned no text to strip
BackendFailed(reply) == reply.kind \in {"raise", "none"}

\* C17: after an iteration that ends with a success among the accumulated
\* results, a sufficiency reply that begins with YES, or a failed backend
\* call, ends the loop: no later pass is planned or executed.  A reply that
\* does not begin with YES, with iterations left, leads into the next pass.
C17_SufficiencyDecidesContinuation ==
    \A i \in 1..Len(passes) :
        (passes[i].checked /\ passes[i].had_success) =>
            /\ (BeginsWithYes(passes[i].reply) \/ BackendFailed(passes[i].reply))
                   => /\ i = Len(passes)
                      /\ iteration = i
                      /\ pc \in {"after_loop", "done"}
            /\ (~BeginsWithYes(passes[i].reply) /\ ~BackendFailed(passes[i].reply)
                    /\ i < max_iterations)
                   => \/ Len(passes) > i /\ iteration > i
                      \/ pc = "loop" /\ iteration = i

\* the backend call failed after a first pass with a success, and the
\* request ended without a second pass
C17_Witness ==
    /\ pc = "done"
    /\ Len(passes) = 1
    /\ passes[1].checked
    /\ passes[1].had_success
    /\ passes[1].reply.kind = "raise"
    /\ iteration = 1

-----------------------------------------------------------------------------
(* Further properties of _execute_tools (specification SpecExec) *)

\* the turns of the loop that found their tool
FoundTurns == {i \in 1..Len(exec_log) : exec_log[i].outcome # "skipped"}

\* C18: an action naming a tool the registry does not hold is skipped: it
\* adds no ToolResult, raises nothing and sets no context key, and the other
\* actions of the call are all taken up, in priority order, each with its
\* own result.
C18_UnknownToolSkipped ==
    pc \in {"execute", "executed"} =>
        /\ raised = NothingRaised
        /\ Len(results) = Cardinality(FoundTurns)
        /\ \A i \in 1..Len(exec_log) :
              IF exec_log[i].outcome = "skipped"
              THEN /\ ~InSeq(exec_log[i].tool_name, RegistrationOrder)
                   /\ \A k \in 1..Len(results) :
                          results[k].tool_name # exec_log[i].tool_name
                   /\ "tool_result_" \o exec_log[i].tool_name \notin current_context.has
              ELSE /\ InSeq(exec_log[i].tool_name, RegistrationOrder)
                   /\ exec_log[i].result = Cardinality({j \in FoundTurns : j <= i})
                   /\ results[exec_log[i].result].tool_name = exec_log[i].tool_name
        /\ \A i, j \in 1..Len(exec_log) :
              i < j => exec_log[i].priority <= exec_log[j].priority
        /\ pc = "executed" =>
              {exec_log[i].action_id : i \in 1..Len(exec_log)}
                  = {tool_actions[k].action_id : k \in 1..Len(tool_actions)}

\* the unknown tool came first in priority order and the action after it
\* was executed and left its result
C18_Witness ==
    /\ pc = "executed"
    /\ Len(exec_log) = 2
    /\ exec_log[1].outcome = "skipped"
    /\ exec_log[2].outcome = "returned"
    /\ Len(results) = 1
    /\ results[1].tool_name = exec_log[2].tool_name

\* C19: whenever a parameter that the tool's capability declares required is
\* missing from an action's parameters, validate_parameters raises: the turn
\* ends at validation with an error-status ToolResult and execute is not
\* called.
C19_MissingRequiredFailsValidation ==
    \A i \in FoundTurns :
        LET p == exec_log[i].parameters
        IN  (p.mapping
             /\ ~(capabilities(exec_log[i].tool_name).required \subseteq p.ok \cup p.bad))
            => /\ exec_log[i].stage = "validate"
               /\ exec_log[i].outcome = "raised"
               /\ results[exec_log[i].result].status = "error"

\* the turns that ended with a ToolResult returned by execute
ReturnedTurns == {i \in 1..Len(exec_log) : exec_log[i].outcome \in {"returned", "raised inside"}}

\* C20: once the action for tool T has finished without raising, the
\* iteration context holds T's result data under tool_result_T, in every
\* state from the end of that turn on (so before the next action is
\* validated or executed), until a later action of T replaces it.
C20_ResultInjectedBeforeNextAction ==
    pc \in {"execute", "executed"} =>
        \A i \in ReturnedTurns :
            LET key == "tool_result_" \o exec_log[i].tool_name
                latest == \A j \in ReturnedTurns :
                              exec_log[j].tool_name = exec_log[i].tool_name => j <= i
            IN  /\ key \in current_context.has
                /\ key \in DOMAIN current_context.payloads
                /\ latest => current_context.payloads[key]
                                 = results[exec_log[i].result].data

\* the first of two actions has returned a payload, the second has not been
\* taken up yet, and the context already holds the payload
C20_Witness ==
    /\ pc = "execute"
    /\ Len(sorted_actions) = 2
    /\ action_idx = 2
    /\ Len(exec_log) = 1
    /\ exec_log[1].outcome = "returned"
    /\ results[1].data = Timestamps
    /\ current_context.payloads["tool_result_" \o exec_log[1].tool_name] = Timestamps

-----------------------------------------------------------------------------
(* The request context across iterations (specification Spec) *)

\* the keys tool_result_<name> of the tools that returned a success
SuccessKeys(tool_results) ==
    {"tool_result_" \o tool_results[k].tool_name :
        k \in {k \in 1..Len(tool_results) : tool_results[k].status = "success"}}

\* C21: once the action for tool T has completed without raising in some
\* iteration, the key tool_result_T is in the context handed to selection and
\* planning in every later iteration, and in the context returned to the
\* caller.
C21_InjectedKeysPersist ==
    /\ (pc = "execute" /\ action_idx = 1)
           => SuccessKeys(all_tool_results) \subseteq current_context.has
    /\ (pc = "done" /\ returned.status # "none")
           => SuccessKeys(all_tool_results) \subseteq returned.context.has

\* C22: a request that ends with status success has added exactly one entry
\* to its session's history (the store starts empty and the cap of 50 is not
\* reached), however many iterations ran.
C22_OneHistoryEntryPerRequest ==
    (pc = "done" /\ returned.status = "success") =>
        /\ context.session_id \in DOMAIN session_contexts
        /\ Len(session_contexts[context.session_id].history) = 1

\* C23: once a session's state exists, the next build_context for that
\* session (the default label included, when no session id is supplied)
\* copies its history, recent tools and preferences into the context as
\* conversation_history, recent_tool_usage and user_preferences.
C23_SessionStateRoundTrips ==
    (/\ cm_call.op = "build_context"
     /\ LabelHasSession(session_contexts, cm_call.session_id)) =>
        LET stored == session_contexts[SessionLabel(cm_call.session_id)]
        IN  /\ {"conversation_history", "recent_tool_usage", "user_preferences"}
                   \subseteq cm_call.context.has
            /\ cm_call.context.conversation_history = stored.history
            /\ cm_call.context.recent_tool_usage = stored.recent_tools
            /\ cm_call.context.user_preferences = stored.preferences

\* the names of the tools that succeeded in a batch
SuccessNames(tool_results) ==
    {tool_results[k].tool_name :
        k \in {k \in 1..Len(tool_results) : tool_results[k].status = "success"}}

\* the batch in the opposite order
ReverseBatch(tool_results) ==
    [k \in 1..Len(tool_results) |-> tool_results[Len(tool_results) + 1 - k]]

\* the batch without the later successes of a tool that succeeded before
RECURSIVE OncePerTool(_, _)
OncePerTool(tool_results, seen) ==
    IF tool_results = <<>> THEN <<>>
    ELSE LET r == Head(tool_results)
         IN  IF r.status = "success" /\ r.tool_name \in seen
             THEN OncePerTool(Tail(tool_results), seen)
             ELSE <<r>> \o OncePerTool(Tail(tool_results),
                                       IF r.status = "success"
                                       THEN seen \cup {r.tool_name} ELSE seen)

\* the tool_combinations counters the code computes from a batch
CombinationsAfter(preferences, tool_results) ==
    extract_preferences(preferences, [data_types |-> <<>>],
                        tool_results).tool_combinations

\* C24: update_context increments a tool_combinations counter exactly when
\* two or more tools of the batch succeeded, and which counter it is depends
\* on the set of successful tool names only: the same batch in another
\* order, or with each tool's success counted once, increments the same one.
C24_CombinationKeyFromSetOfNames ==
    [][cm_call'.op = "update_context" =>
          LET s == cm_call'.session_id
              batch == cm_call'.batch
              preferences == IF s \in DOMAIN session_contexts
                             THEN session_contexts[s].preferences
                             ELSE NoPreferences
              after == session_contexts'[s].preferences.tool_combinations
          IN  /\ (after # preferences.tool_combinations)
                     <=> Cardinality(SuccessNames(batch)) >= 2
              /\ after = CombinationsAfter(preferences, ReverseBatch(batch))
              /\ after = CombinationsAfter(preferences, OncePerTool(batch, {}))]_vars

\* C25: after every update_context call whose batch names at most 10
\* distinct tools, each tool named in the batch is in the session's
\* recent_tools, whatever the session held before.
C25_BatchToolsAreRecent ==
    (/\ cm_call.op = "update_context"
     /\ Cardinality({cm_call.batch[k].tool_name : k \in 1..Len(cm_call.batch)})
            <= RecentToolsKept) =>
        \A k \in 1..Len(cm_call.batch) :
            InSeq(cm_call.batch[k].tool_name,
                  session_contexts[cm_call.session_id].recent_tools)

\* C30: update_context and clear_session_context for one session id leave
\* the history, recent_tools, preferences and created_at of every other
\* session as they were, and build_context changes no stored session at all.
C30_OtherSessionsUntouched ==
    [][/\ cm_call'.op \in {"update_context", "clear_session_context"} =>
              \A b \in DOMAIN session_contexts \ {cm_call'.session_id} :
                  /\ b \in DOMAIN session_contexts'
                  /\ session_contexts'[b] = session_contexts[b]
       /\ cm_call'.op = "build_context" => session_contexts' = session_contexts]_vars

\* a session was cleared, or updated, while another session held history,
\* recent tools and counted preferences
C30_Witness ==
    /\ cm_call.op \in {"update_context", "clear_session_context"}
    /\ \E b \in DOMAIN session_contexts \ {cm_call.session_id} :
          /\ session_contexts[b].history # <<>>
          /\ session_contexts[b].recent_tools # <<>>
          /\ session_contexts[b].preferences # NoPreferences

-----------------------------------------------------------------------------
(* Claims about the registry config *)

\* C27: a tool that ToolRegistry.initialize skips because its config entry
\* has enabled = false is returned by no later get_tools_for_intent or
\* select_tools call.
C27_ConfigDisabledNeverReturned ==
    r_call.op \in {"get_tools_for_intent", "select_tools"} =>
        \A i \in 1..Len(r_call.result) :
            r_call.result[i].tool \notin registry.skipped_by_initialize

-----------------------------------------------------------------------------
(* Claims about the connection manager *)

\* the connection a thread was handed by get_connection and has not finished
\* using: returned to it, or the argument of its pending pd.read_sql
InUse(thread) ==
    IF thread.pc = "got" /\ ~thread.did_raise THEN thread.ret
    ELSE IF thread.pc = "read_sql" THEN thread.local
    ELSE NoConnection

\* the thread is inside cleanup or inside the _close_connection of
\* execute_query's reconnect path
InCleanupOrReconnect(thread) ==
    \/ thread.op = "cleanup"
    \/ thread.pc \in {"close_107", "close_109", "close_114"}
           /\ thread.after_close = "acquire"

\* C28: the stored connection is closed or replaced only by a thread that
\* holds the manager lock, and a connection handed to a thread by
\* get_connection is not closed by another thread's reconnect path or
\* cleanup while the first thread is still using it.
C28_ClosedOnlyUnderLock ==
    [][/\ (\/ manager'.connection # manager.connection
           \/ server'.closed # server.closed) => manager.lock = actor'
       /\ \A t \in Threads :
             (/\ actor' \in Threads \ {t}
              /\ InCleanupOrReconnect(threads[actor'])
              /\ InUse(threads[t]) # NoConnection
              /\ InUse(threads[t]) \notin server.closed)
                 => InUse(threads[t]) \notin server'.closed]_vars

\* C29: when get_connection finds the stored connection older than
\* connection_timeout, or its liveness probe fails, it returns neither that
\* connection nor nothing: the stored connection is closed and a connection
\* made by this call is returned, or the connect error is raised and neither
\* a connection nor a connection_time remains stored.
C29_ExpiredOrDeadIsReplaced ==
    \A t \in Threads :
        (threads[t].pc = "got" /\ threads[t].judged \in {"expired", "probe_failed"}) =>
            \/ /\ ~threads[t].did_raise
               /\ threads[t].ret # NoConnection
               /\ threads[t].ret = threads[t].created
               /\ threads[t].ret # threads[t].old
               /\ threads[t].old # NoConnection => threads[t].old \in server.closed
            \/ /\ threads[t].did_raise
               /\ threads[t].stored_after = NoConnection
               /\ threads[t].time_after = NoTime

-----------------------------------------------------------------------------
(* Claims about interleaved flows *)

\* the names of the tools in the logged entries
LoggedTools ==
    UNION {{flows.log[k].tool_results[j].tool_name :
               j \in 1..Len(flows.log[k].tool_results)} : k \in 1..Len(flows.log)}

\* C26: when process_request flows for one session interleave at their
\* awaits, every update_context call takes effect whole: the session's
\* history is the earlier history followed by the entries of all calls in
\* call order, cut to the cap, every tool of those entries is in
\* recent_tools, and the history cap, the recent_tools bound and its
\* uniqueness hold in every reachable state.
C26_UpdatesAreAtomic ==
    IF "default" \notin DOMAIN session_contexts
    THEN flows.log = <<>> /\ flows.prior = 0
    ELSE LET session == session_contexts["default"]
             recent == session.recent_tools
         IN  /\ session.history =
                    TrimHistory(PriorHistory(flows.prior) \o flows.log,
                                max_history_size)
             /\ \A name \in LoggedTools : InSeq(name, recent)
             /\ Len(session.history) <= max_history_size
             /\ Len(recent) <= RecentToolsKept
             /\ \A i, j \in 1..Len(recent) : recent[i] = recent[j] => i = j

\* two flows took turns updating the session (the first again after the
\* second) and the history was cut at the cap
C26_Witness ==
    /\ Len(flows.log) >= 3
    /\ flows.prior + Len(flows.log) > max_history_size
    /\ \E k \in 1..(Len(flows.log) - 2) :
          /\ flows.log[k].timestamp = flows.log[k + 2].timestamp
          /\ flows.log[k].timestamp # flows.log[k + 1].timestamp
    /\ \E i \in FlowIds : flows.procs[i].pc \notin {"start", "done"}

====
